---- MODULE Spec2Model ----
(***************************************************************************)
(* Model of the real-time conversation orchestrator of the voice booking   *)
(* agent: the StreamingSession (Deepgram STT -> LLM -> Deepgram TTS) with  *)
(* its media-stream bridge, and the RealtimeStreamingSession (speech to    *)
(* speech).  JavaScript runs every handler to completion, so one action is *)
(* one synchronous segment of code between two awaits.                     *)
(***************************************************************************)
EXTENDS Naturals, Integers, Sequences, FiniteSets, TLC

\* ------------------------------------------------------------------ bounds
MaxTurns == 2
MaxChunks == 2
MaxTranscriptLen == 2
MaxTeardownTurns == 1

\* one greeting, and per turn one reply and at most one apology
MaxUtt == 1 + 2 * MaxTurns
MaxResponses == 3
MaxUserUtterances == 2
MaxNet == 2

\* requests of one call to the gather webhook
MaxGatherTurns == 6

\* sessions created in one session store
MaxCreates == 3

\* ------------------------------------------------------------------ strings
\* A string is a sequence of one-character strings.
Undefined == "undefined"

RECURSIVE TrimStart(_)
TrimStart(s) ==
    IF s = <<>> THEN <<>>
    ELSE IF Head(s) = " " THEN TrimStart(Tail(s)) ELSE s

RECURSIVE TrimEnd(_)
TrimEnd(s) ==
    IF s = <<>> THEN <<>>
    ELSE IF s[Len(s)] = " " THEN TrimEnd(SubSeq(s, 1, Len(s) - 1)) ELSE s

Trim(s) == TrimEnd(TrimStart(s))

IsPrefix(s, t) == Len(s) <= Len(t) /\ SubSeq(t, 1, Len(s)) = s

\* texts the speech-to-text service reports in a transcription result
TranscriptTexts == {<<>>, <<"a">>}

\* the same with a result that is only white space
BlankTexts == TranscriptTexts \cup {<<" ">>}

GreetingText == <<"g">>
ApologyText == <<"s">>

\* replies of the dialogue engine (processConversationStreaming)
NoData == [customerName |-> Undefined, appointmentDate |-> Undefined,
           appointmentTime |-> Undefined]

CompleteData ==
    { [customerName |-> "n1", appointmentDate |-> "d1", appointmentTime |-> "t1"],
      [customerName |-> "n1", appointmentDate |-> Undefined, appointmentTime |-> "t1"] }

CollectingReplies ==
    { [response |-> r, isComplete |-> FALSE, extractedData |-> NoData] :
        r \in {<<>>, <<"r">>} }

CompleteReplies ==
    { [response |-> <<"k">>, isComplete |-> TRUE, extractedData |-> d] :
        d \in CompleteData }

NoReply == [response |-> <<>>, isComplete |-> FALSE, extractedData |-> NoData]

\* a `response` value of parsed JSON that is not a string (a number): it is
\* truthy and has no trim method
NotAString == <<"#42">>

\* what the model streams back (fullResponse): text that JSON.parse rejects,
\* or a JSON object with its fields
EngineOutputs ==
    { [json |-> FALSE, raw |-> <<"r">>, status |-> Undefined, response |-> <<>>,
       data |-> NoData],
      [json |-> FALSE, raw |-> <<>>, status |-> Undefined, response |-> <<>>,
       data |-> NoData],
      [json |-> TRUE, raw |-> <<"j">>, status |-> "collecting", response |-> <<"r">>,
       data |-> [customerName |-> "n1", appointmentDate |-> "d1",
                 appointmentTime |-> "t1"]],
      [json |-> TRUE, raw |-> <<"j">>, status |-> Undefined, response |-> <<>>,
       data |-> NoData],
      [json |-> TRUE, raw |-> <<"j">>, status |-> "collecting", response |-> NotAString,
       data |-> NoData],
      [json |-> TRUE, raw |-> <<"j">>, status |-> "complete", response |-> <<"k">>,
       data |-> [customerName |-> "n1", appointmentDate |-> "d1",
                 appointmentTime |-> "t1"]] }

\* processConversationStreaming from the parse of fullResponse on; a missing
\* or empty `response` is falsy
ProcessConversationStreaming(out) ==
    LET parsed == out.json
        text == IF parsed /\ out.response # <<>> THEN out.response ELSE out.raw
    IN IF parsed /\ out.status = "complete"
       THEN [response |-> text, isComplete |-> TRUE, extractedData |-> out.data]
       ELSE [response |-> text, isComplete |-> FALSE, extractedData |-> NoData]

\* ------------------------------------------------------------------ state
VARIABLES
    ss,          \* the StreamingSession object, its coroutines and its collaborators
    wsOpen,      \* the bridge's WebSocket is OPEN
    hsPc,        \* position of the bridge's handleStart
    hasBusiness, \* customParameters.businessId was given
    bridgeSession, \* the bridge's local `session` is set
    registered,  \* streamingSessionStore holds the call's session
    stopPc,      \* position of the bridge's handleStop
    closePc,     \* position of the bridge's close handler
    sttOpen,     \* the speech-to-text service may deliver events
    rt,          \* the RealtimeStreamingSession object and its OpenAIRealtimeSession
    net,         \* server events of the Realtime API on their way to the client
    gs,          \* the webhook flow of a call: its CallSession and the last TwiML
    stores,      \* streamingSessionStore and realtimeSessionStore
    dp,          \* a call of the date parser: the clock, the input and the result
    db,          \* the bookings table and the booking step of each call
    media,
    cs,          \* sessionStore of the webhook routes, its timers and the clock       \* the caller's audio frames: arrived, and forwarded to speech-to-text
    srv          \* the Realtime API server: its response in progress, requests on their way to it

vars == <<ss, wsOpen, hsPc, hasBusiness, bridgeSession, registered, stopPc,
          closePc, sttOpen, rt, net, srv, gs, stores, dp, db, media, cs>>

\* the parts of the service that a media-stream call does not touch
otherVars == <<gs, stores, dp, db, media, cs>>

bridgeVars == <<wsOpen, hsPc, hasBusiness, bridgeSession, registered, stopPc,
                closePc, sttOpen>>

rtVars == <<rt, net, srv, otherVars>>

\* what the webhook routes do not touch
streamVars == <<ss, bridgeVars, rt, net, srv>>

IdleTts == [st |-> "idle", n |-> 0, cut |-> FALSE]

\* StreamingSession field initialisers and constructor
NewSession ==
    [ state |-> "initializing",
      conversationHistory |-> <<>>,
      collectedData |-> [customerName |-> Undefined, appointmentDate |-> Undefined,
                         appointmentTime |-> Undefined, phoneNumber |-> Undefined],
      currentTranscript |-> <<>>,
      isProcessing |-> FALSE,
      audioQueue |-> <<>>,
      isSpeaking |-> FALSE,
      shouldInterrupt |-> FALSE,
      \* the handle in this.silenceTimer (0 for null), and the timeouts that
      \* were set and have neither fired nor been cleared
      silenceTimer |-> 0,
      timers |-> {},
      \* coroutines
      startPc |-> "idle",
      turnPc |-> "idle",
      turnResp |-> NoReply,
      \* collaborators
      tts |-> [u \in 1..MaxUtt |-> IdleTts],
      uttCount |-> 0,
      aiInFlight |-> 0,
      turns |-> 0,
      bk |-> <<>>,
      completeTimers |-> 0,
      \* what the handler that ran last gave to ws.send, and what it emitted
      sent |-> <<>>,
      emitted |-> <<>>,
      aiUserMessage |-> <<>>,
      listeners |-> FALSE ]

\* RealtimeStreamingSession field initialisers, with its OpenAIRealtimeSession
NewRealtimeSession ==
    [ state |-> "initializing",
      conversationTranscript |-> <<>>,
      collectedData |-> [customerName |-> Undefined, appointmentDate |-> Undefined,
                         appointmentTime |-> Undefined, phoneNumber |-> Undefined],
      isSpeaking |-> FALSE,
      isUserSpeaking |-> FALSE,
      greetingSent |-> FALSE,
      startPc |-> "idle",
      \* OpenAIRealtimeSession
      isConnected |-> FALSE,
      currentResponseId |-> 0,
      wsOut |-> <<>>,
      \* responses for which response.cancel was sent
      cancelled |-> {},
      completeTimers |-> 0,
      bookingCompletes |-> 0,
      feedbacks |-> 0,
      sent |-> <<>>,
      emitted |-> <<>> ]

\* the Realtime API server: the response it is generating, how many responses
\* it has made and how many caller utterances it has transcribed
NewServer ==
    [resp |-> 0, phase |-> "idle", n |-> 0, made |-> 0, heard |-> 0,
     vad |-> "quiet", tx |-> FALSE, turn |-> FALSE]

\* ------------------------------------------------------------------ bridge callbacks
\* sendAudioToTwilio / clearTwilioAudio: nothing is sent unless the socket is OPEN
SendAudioToTwilio(s, msg) ==
    IF wsOpen THEN [s EXCEPT !.sent = Append(@, msg)] ELSE s

ClearTwilioAudio(s) ==
    IF wsOpen THEN [s EXCEPT !.sent = Append(@, [k |-> "clear", u |-> 0])] ELSE s

\* ------------------------------------------------------------------ session
\* EventEmitter.emit on the session
Emit(s, name, arg) == [s EXCEPT !.emitted = Append(@, [e |-> name, arg |-> arg])]

SetState(s, newState) ==
    Emit([s EXCEPT !.state = newState], "state_change",
         [oldState |-> s.state, newState |-> newState])

\* the drain loop of processAudioQueue: pops the chunks in order and sends each
RECURSIVE DrainQueue(_)
DrainQueue(s) ==
    IF s.audioQueue # <<>> /\ ~s.shouldInterrupt
    THEN DrainQueue(SendAudioToTwilio([s EXCEPT !.audioQueue = Tail(@)],
                                      [k |-> "audio", u |-> Head(s.audioQueue)]))
    ELSE s

\* a faulty processAudioQueue: it ends the speaking without draining the queue
ProcessAudioQueueUndrained(s) ==
    IF s.shouldInterrupt
    THEN [s EXCEPT !.audioQueue = <<>>]
    ELSE IF s.isSpeaking
    THEN SetState([s EXCEPT !.isSpeaking = FALSE], "listening")
    ELSE s

ProcessAudioQueue(s) ==
    IF s.shouldInterrupt
    THEN [s EXCEPT !.audioQueue = <<>>]
    ELSE LET d == DrainQueue(s) IN
         IF d.audioQueue = <<>> /\ d.isSpeaking
         THEN SetState([d EXCEPT !.isSpeaking = FALSE], "listening")
         ELSE d

\* the bridge's barge_in listener
OnBargeInEvent(s) == IF s.listeners THEN ClearTwilioAudio(s) ELSE s

\* a faulty handleBargeIn: it clears the queue but leaves isSpeaking set
HandleBargeInStillSpeaking(s) ==
    IF ~s.isSpeaking THEN s
    ELSE LET a == [s EXCEPT !.shouldInterrupt = TRUE,
                            !.audioQueue = <<>>,
                            !.tts[s.uttCount].cut = TRUE]
             b == ClearTwilioAudio(a)
             c == SendAudioToTwilio(b, [k |-> "silence", u |-> 0])
             d == OnBargeInEvent(Emit(c, "barge_in", <<>>))
         IN SetState(d, "listening")

HandleBargeIn(s) ==
    IF ~s.isSpeaking THEN s
    ELSE LET a == [s EXCEPT !.shouldInterrupt = TRUE,
                            !.isSpeaking = FALSE,
                            !.audioQueue = <<>>,
                            \* the utterance whose playback is being interrupted
                            !.tts[s.uttCount].cut = TRUE]
             b == ClearTwilioAudio(a)
             c == SendAudioToTwilio(b, [k |-> "silence", u |-> 0])
             d == OnBargeInEvent(Emit(c, "barge_in", <<>>))
         IN SetState(d, "listening")

\* clearTimeout: clearing a timeout that has fired changes nothing
ClearTimeout(s, id) == [s EXCEPT !.timers = @ \ {id}]

\* setTimeout: a new pending timeout, named by the first free number
SetTimeout(s) ==
    LET id == CHOOSE i \in 1..(Cardinality(s.timers) + 1) :
                  i \notin s.timers /\ \A j \in 1..(i - 1) : j \in s.timers
    IN [s EXCEPT !.timers = @ \cup {id}, !.silenceTimer = id]

\* a faulty resetSilenceTimer: it sets the new timeout without clearing the old one
ResetSilenceTimerKeepsOld(s) == SetTimeout(s)

ResetSilenceTimer(s) ==
    SetTimeout(IF s.silenceTimer # 0 THEN ClearTimeout(s, s.silenceTimer) ELSE s)

ScheduleProcesing(s) ==
    SetTimeout(IF s.silenceTimer # 0 THEN ClearTimeout(s, s.silenceTimer) ELSE s)

\* speak(): the synchronous part up to the await of tts.synthesizeStreaming
Speak(s, text) ==
    IF Trim(text) = <<>> THEN s
    ELSE LET u == s.uttCount + 1 IN
         SetState([s EXCEPT !.isSpeaking = TRUE,
                            !.shouldInterrupt = FALSE,
                            !.uttCount = u,
                            !.tts[u] = [st |-> "streaming", n |-> 0, cut |-> FALSE]],
                  "speaking")

\* speak() returned without awaiting a synthesis (empty text)
SpeakReturned(s, text) == Trim(text) = <<>>

\* the bridge's booking_complete listener, up to its first await
OnBookingComplete(s, data) ==
    IF ~s.listeners THEN s
    ELSE IF ~hasBusiness
    THEN [s EXCEPT !.bk = Append(@, "skipped")]
    ELSE IF data.appointmentDate = Undefined \/ data.appointmentTime = Undefined
    THEN \* parseDateTime returns null
         [s EXCEPT !.bk = Append(@, "skipped")]
    ELSE [s EXCEPT !.bk = Append(@, "checking")]

\* processUserInput: the finally block
TurnFinally(s) ==
    [s EXCEPT !.isProcessing = FALSE, !.turnPc = "idle", !.turnResp = NoReply]

\* processUserInput after `await this.speak(response.response)` has resolved
AfterSpeak(s) ==
    IF s.turnResp.isComplete
    THEN TurnFinally([SetState(s, "completed") EXCEPT !.completeTimers = @ + 1])
    ELSE TurnFinally(s)

\* processUserInput: the catch block
SpeakApology(s) == [Speak(s, ApologyText) EXCEPT !.turnPc = "awaitApology"]

\* processUserInput: speak the response; the await resolves at once when
\* speak() returned without starting a synthesis
SpeakResponse(s) ==
    IF s.turnResp.response = NotAString
    THEN \* text.trim() throws a TypeError inside the try block
         SpeakApology(s)
    ELSE IF SpeakReturned(s, s.turnResp.response)
    THEN AfterSpeak(s)
    ELSE [Speak(s, s.turnResp.response) EXCEPT !.turnPc = "awaitSpeak"]

\* a faulty processUserInput: it never raises isProcessing
ProcessUserInputUnguarded(s) ==
    IF s.isProcessing \/ Trim(s.currentTranscript) = <<>> THEN s
    ELSE LET userMessage == Trim(s.currentTranscript)
             a == [s EXCEPT !.currentTranscript = <<>>]
             b == SetState(a, "processing")
         IN [b EXCEPT !.conversationHistory =
                          Append(@, [role |-> "user", content |-> userMessage]),
                      !.aiUserMessage = userMessage,
                      !.aiInFlight = @ + 1,
                      !.turns = @ + 1,
                      !.turnPc = "awaitAI"]

\* a faulty processUserInput: the history is restarted with the new message
ProcessUserInputRewrites(s) ==
    IF s.isProcessing \/ Trim(s.currentTranscript) = <<>> THEN s
    ELSE LET userMessage == Trim(s.currentTranscript)
             a == [s EXCEPT !.currentTranscript = <<>>, !.isProcessing = TRUE]
             b == SetState(a, "processing")
         IN [b EXCEPT !.conversationHistory =
                          <<[role |-> "user", content |-> userMessage]>>,
                      !.aiUserMessage = userMessage,
                      !.aiInFlight = @ + 1,
                      !.turns = @ + 1,
                      !.turnPc = "awaitAI"]

\* processUserInput up to the await of getAIResponse
ProcessUserInput(s) ==
    IF s.isProcessing \/ Trim(s.currentTranscript) = <<>> THEN s
    ELSE LET userMessage == Trim(s.currentTranscript)
             a == [s EXCEPT !.currentTranscript = <<>>, !.isProcessing = TRUE]
             b == SetState(a, "processing")
         IN [b EXCEPT !.conversationHistory =
                          Append(@, [role |-> "user", content |-> userMessage]),
                      !.aiUserMessage = userMessage,
                      !.aiInFlight = @ + 1,
                      !.turns = @ + 1,
                      !.turnPc = "awaitAI"]

\* a faulty timer callback: it starts a turn whatever the transcript holds
TimerCallbackUnguarded(s) ==
    IF s.isProcessing THEN s
    ELSE LET userMessage == Trim(s.currentTranscript)
             a == [s EXCEPT !.currentTranscript = <<>>, !.isProcessing = TRUE]
             b == SetState(a, "processing")
         IN [b EXCEPT !.conversationHistory =
                          Append(@, [role |-> "user", content |-> userMessage]),
                      !.aiUserMessage = userMessage,
                      !.aiInFlight = @ + 1,
                      !.turns = @ + 1,
                      !.turnPc = "awaitAI"]

\* the callback of the silence timer (resetSilenceTimer and scheduleProcesing
\* install the same callback)
TimerCallback(s) ==
    IF Trim(s.currentTranscript) # <<>> /\ ~s.isProcessing
    THEN ProcessUserInput(s)
    ELSE s

\* processUserInput after getAIResponse has returned `r`
OnAIResponse(s, r) ==
    LET a == [s EXCEPT !.aiInFlight = @ - 1,
                       !.aiUserMessage = <<>>,
                       !.turnResp = r,
                       !.conversationHistory =
                           Append(@, [role |-> "assistant", content |-> r.response])]
        b == IF r.isComplete
             THEN LET d == [customerName |-> r.extractedData.customerName,
                            appointmentDate |-> r.extractedData.appointmentDate,
                            appointmentTime |-> r.extractedData.appointmentTime,
                            phoneNumber |-> "from"]
                  IN OnBookingComplete(
                         Emit([a EXCEPT !.collectedData = d], "booking_complete", d), d)
             ELSE a
    IN SpeakResponse(b)

\* processUserInput after getAIResponse has thrown
OnAIError(s) == SpeakApology([s EXCEPT !.aiInFlight = @ - 1, !.aiUserMessage = <<>>])

\* tts "audio_chunk" handler
OnAudioChunk(s, u) ==
    IF s.shouldInterrupt THEN s
    ELSE ProcessAudioQueue([s EXCEPT !.audioQueue = Append(@, u)])

\* start() up to the await of the greeting's synthesis
StartSession(s) ==
    LET a == SetState(SetState(s, "initializing"), "greeting")
        b == [a EXCEPT !.conversationHistory =
                           Append(@, [role |-> "assistant", content |-> GreetingText])]
    IN [Speak(b, GreetingText) EXCEPT !.startPc = "awaitGreeting"]

\* what DeepgramSTT.start() comes to: the connection was created and
\* isConnected set, or client.listen.live threw and the promise is rejected
SttStarts == {"connected", "threw"}

\* start() awaiting the speech-to-text connection before the greeting: a
\* rejected stt.start() would reach the catch block of start()
StartAwaitingStt(s, stt) ==
    IF stt = "connected" THEN StartSession(s)
    ELSE [SetState(SetState(s, "initializing"), "failed") EXCEPT !.startPc = "failed"]

\* start(): `void this.stt.start()` drops the promise, whatever it comes to
Start(s, stt) == StartSession(s)

\* whoever awaits the synthesis of utterance u continues after it resolved
SynthesisResolved(s, u) ==
    IF u = 1
    THEN [SetState(s, "listening") EXCEPT !.startPc = "done"]
    ELSE IF s.turnPc = "awaitSpeak" THEN AfterSpeak(s)
    ELSE TurnFinally(s)

\* the synthesis of utterance u threw: speak() resets isSpeaking and rethrows,
\* start() fails, processUserInput apologises (or gives up in its catch block)
SynthesisRejected(s, u) ==
    LET a == [s EXCEPT !.isSpeaking = FALSE] IN
    IF u = 1
    THEN [SetState(a, "failed") EXCEPT !.startPc = "failed"]
    ELSE IF a.turnPc = "awaitSpeak" THEN SpeakApology(a)
    ELSE TurnFinally(a)

\* cleanup() up to the await of stt.close()
CleanupBegin(s) == IF s.silenceTimer # 0 THEN ClearTimeout(s, s.silenceTimer) ELSE s

\* cleanup() after stt.close()
CleanupEnd(s) == [s EXCEPT !.audioQueue = <<>>, !.listeners = FALSE]

\* a handler starts: nothing sent or emitted by it yet
Begin(s) == [s EXCEPT !.sent = <<>>, !.emitted = <<>>]

S == Begin(ss)

\* ------------------------------------------------------------------ webhook flow
\* speech results Twilio posts to /voice/gather
GatherSpeech == {<<>>, <<" ">>, <<"a">>}

\* a call before /voice/incoming: no CallSession (retryCount 0 stands for an
\* absent retryCount as well, both are falsy); `heard` records for each gather
\* request whether its speech result was empty
NewCall ==
    [ line |-> "ringing", session |-> FALSE, retryCount |-> 0, pc |-> "idle",
      retryLocal |-> 0, twiml |-> "none", heard |-> <<>>,
      \* session.status, and what checkDbAvailability and createDbBooking
      \* returned to the request at hand
      status |-> "none", available |-> "none", bookingId |-> "none",
      \* session.conversationHistory, and the messages the request at hand
      \* gives to the chat completion
      conversationHistory |-> <<>>, messages |-> <<>> ]

\* the messages of processConversation and processConversationStreaming: the
\* system prompt, the session's history and the user message
EngineMessages(conversationHistory, userMessage) ==
    <<[role |-> "system", content |-> <<"p">>]>>
        \o conversationHistory
        \o <<[role |-> "user",
              content |-> IF userMessage = <<>> THEN <<"(silence)">> ELSE userMessage]>>

\* the number of empty speech results at the end of `h`
RECURSIVE EmptyRun(_)
EmptyRun(h) ==
    IF h = <<>> \/ ~h[Len(h)] THEN 0 ELSE 1 + EmptyRun(SubSeq(h, 1, Len(h) - 1))

\* a faulty /voice/gather: a non-empty speech result leaves retryCount alone
OnGatherNoReset(g, speech) ==
    LET heard == [g EXCEPT !.heard = Append(@, Trim(speech) = <<>>)]
    IN IF ~g.session
       THEN [heard EXCEPT !.twiml = "hangup", !.line = "ended"]
       ELSE IF Trim(speech) = <<>>
       THEN [heard EXCEPT !.retryCount = @ + 1, !.retryLocal = g.retryCount + 1,
                          !.pc = "retryAwaitAI",
                          !.messages = EngineMessages(g.conversationHistory, <<>>)]
       ELSE LET pushed == Append(g.conversationHistory,
                                 [role |-> "user", content |-> speech])
            IN [heard EXCEPT !.pc = "turnAwaitAI",
                             !.conversationHistory = pushed,
                             !.messages = EngineMessages(pushed, speech)]

\* POST /voice/gather up to its first await
OnGather(g, speech) ==
    LET heard == [g EXCEPT !.heard = Append(@, Trim(speech) = <<>>)]
    IN IF ~g.session
       THEN [heard EXCEPT !.twiml = "hangup", !.line = "ended"]
       ELSE IF Trim(speech) = <<>>
       THEN [heard EXCEPT !.retryCount = @ + 1, !.retryLocal = g.retryCount + 1,
                          !.pc = "retryAwaitAI",
                          !.messages = EngineMessages(g.conversationHistory, <<>>)]
       ELSE LET pushed == Append(g.conversationHistory,
                                 [role |-> "user", content |-> speech])
            IN [heard EXCEPT !.retryCount = 0, !.pc = "turnAwaitAI",
                             !.conversationHistory = pushed,
                             !.messages = EngineMessages(pushed, speech)]

\* the TwiML a handler sends ends the request; a hangup ends the call
Respond(g, twiml) ==
    [g EXCEPT !.twiml = twiml, !.pc = "idle",
              !.line = IF twiml = "gather" THEN @ ELSE "ended"]

\* POST /voice/incoming: the number resolves to a business, the CallSession
\* is created and the call is redirected to /voice/gather
VoiceIncoming ==
    /\ gs.line = "ringing"
    /\ gs' = [gs EXCEPT !.line = "open", !.session = TRUE, !.twiml = "redirect",
                        !.status = "collecting"]
    /\ UNCHANGED <<streamVars, stores, dp, db, media, cs>>

\* POST /voice/incoming for a number that is not configured
VoiceIncomingUnknown ==
    /\ gs.line = "ringing"
    /\ gs' = [gs EXCEPT !.line = "ended", !.twiml = "hangup"]
    /\ UNCHANGED <<streamVars, stores, dp, db, media, cs>>

\* Twilio follows the redirect (no SpeechResult) or posts the gathered speech
GatherPost ==
    /\ gs.line = "open" /\ gs.pc = "idle"
    /\ gs.twiml \in {"redirect", "gather"}
    /\ Len(gs.heard) < MaxGatherTurns
    /\ \E speech \in (IF gs.twiml = "redirect" THEN {<<>>} ELSE GatherSpeech) :
           gs' = OnGather([gs EXCEPT !.available = "none", !.bookingId = "none"],
                          speech)
    /\ UNCHANGED <<streamVars, stores, dp, db, media, cs>>

\* empty speech: processConversation("") has returned the retry prompt
RetryPromptReturns ==
    /\ gs.pc = "retryAwaitAI"
    /\ gs' = Respond(gs, IF gs.retryLocal < 3 THEN "gather" ELSE "hangup")
    /\ UNCHANGED <<streamVars, stores, dp, db, media, cs>>

\* empty speech: processConversation("") has thrown; the handler sends nothing
RetryPromptThrows ==
    /\ gs.pc = "retryAwaitAI"
    /\ gs' = Respond(gs, "none")
    /\ UNCHANGED <<streamVars, stores, dp, db, media, cs>>

\* a turn with speech: the reply is collecting (session.status is set to
\* collecting), or complete with a date that parseDateTime rejects; both
\* gather again
TurnReturns ==
    /\ gs.pc = "turnAwaitAI"
    /\ \E isComplete \in BOOLEAN :
           gs' = Respond([gs EXCEPT !.status = IF isComplete THEN @ ELSE "collecting",
                                    !.conversationHistory =
                                        Append(@, [role |-> "assistant",
                                                   content |-> <<"r">>])],
                         "gather")
    /\ UNCHANGED <<streamVars, stores, dp, db, media, cs>>

\* a turn with speech: the reply is complete and its date and time are
\* valid; the handler awaits checkDbAvailability
TurnCompletes ==
    /\ gs.pc = "turnAwaitAI"
    /\ gs' = [gs EXCEPT !.pc = "checkAvailability",
                        !.conversationHistory =
                            Append(@, [role |-> "assistant", content |-> <<"k">>])]
    /\ UNCHANGED <<streamVars, stores, dp, db, media, cs>>

\* checkDbAvailability has returned: the handler awaits createDbBooking, or
\* speaks the reason and gathers again
AvailabilityReturns ==
    /\ gs.pc = "checkAvailability"
    /\ \E available \in BOOLEAN :
           gs' = IF available
                 THEN [gs EXCEPT !.available = "yes", !.pc = "createBooking"]
                 ELSE Respond([gs EXCEPT !.available = "no"], "gather")
    /\ UNCHANGED <<streamVars, stores, dp, db, media, cs>>

\* createDbBooking has returned an id or null; with an id the session is
\* completed and, when it has a dbSessionId, updateCallSession is awaited;
\* null is thrown and caught as an error
BookingReturns ==
    /\ gs.pc = "createBooking"
    /\ \E bookingId \in {"id", "null"}, dbSessionId \in BOOLEAN :
           gs' = IF bookingId = "null"
                 THEN Respond([gs EXCEPT !.bookingId = "null"], "hangup")
                 ELSE IF dbSessionId
                 THEN [gs EXCEPT !.bookingId = "id", !.status = "completed",
                                 !.pc = "updateCallSession"]
                 ELSE Respond([gs EXCEPT !.bookingId = "id", !.status = "completed"],
                              "hangup")
    /\ UNCHANGED <<streamVars, stores, dp, db, media, cs>>

\* updateCallSession has returned: the confirmation is spoken
CallSessionUpdated ==
    /\ gs.pc = "updateCallSession"
    /\ gs' = Respond(gs, "hangup")
    /\ UNCHANGED <<streamVars, stores, dp, db, media, cs>>

\* an await of the booking branch has thrown: the catch block apologises
BookingThrows ==
    /\ gs.pc \in {"checkAvailability", "createBooking", "updateCallSession"}
    /\ gs' = Respond(gs, "hangup")
    /\ UNCHANGED <<streamVars, stores, dp, db, media, cs>>

\* a turn with speech: processConversation has thrown
TurnThrows ==
    /\ gs.pc = "turnAwaitAI"
    /\ gs' = Respond(gs, "hangup")
    /\ UNCHANGED <<streamVars, stores, dp, db, media, cs>>

\* the session's 30 minutes have passed: getSession deletes it
SessionExpires ==
    /\ gs.session /\ gs.pc = "idle"
    /\ gs' = [gs EXCEPT !.session = FALSE]
    /\ UNCHANGED <<streamVars, stores, dp, db, media, cs>>

NextGather ==
    \/ VoiceIncoming \/ VoiceIncomingUnknown
    \/ GatherPost
    \/ RetryPromptReturns \/ RetryPromptThrows
    \/ TurnReturns \/ TurnThrows
    \/ TurnCompletes \/ AvailabilityReturns \/ BookingReturns
    \/ CallSessionUpdated \/ BookingThrows
    \/ SessionExpires

\* ------------------------------------------------------------------ session stores
StoreNames == {"streaming", "realtime"}

CallSids == {"CA1", "CA2"}

\* a store: `sessions` is the Map in insertion order; a session is named by the
\* order of its creation, and that number also stands for its streamSid
\* (Twilio gives every stream a new one). `made` lists the callSid of every session created,
\* `deleting` the delete calls awaiting cleanup, `gone` the sessions created
\* before a delete of their callSid completed.
NewStore == [sessions |-> <<>>, made |-> <<>>, deleting |-> {}, gone |-> {}]

\* get(callSid); 0 stands for undefined
Get(st, callSid) ==
    IF \E i \in 1..Len(st.sessions) : st.sessions[i].callSid = callSid
    THEN st.sessions[CHOOSE i \in 1..Len(st.sessions) :
                         st.sessions[i].callSid = callSid].id
    ELSE 0

\* getByStreamSid(streamSid): the first match in insertion order
GetByStreamSid(st, streamSid) ==
    LET hits == {i \in 1..Len(st.sessions) : st.sessions[i].id = streamSid}
    IN IF hits = {} THEN 0
       ELSE st.sessions[CHOOSE i \in hits : \A j \in hits : i <= j].id

\* the sessions created so far for callSid
CreatedFor(st, callSid) == {id \in 1..Len(st.made) : st.made[id] = callSid}

\* create(config); Map.prototype.set leaves a key that is present in its place
Create(st, callSid) ==
    LET id == Len(st.made) + 1
        m == st.sessions
        e == [callSid |-> callSid, id |-> id]
    IN [st EXCEPT !.made = Append(@, callSid),
                  !.sessions =
                      IF \E i \in 1..Len(m) : m[i].callSid = callSid
                      THEN [i \in 1..Len(m) |->
                               IF m[i].callSid = callSid THEN e ELSE m[i]]
                      ELSE Append(m, e)]

\* delete(callSid) up to the await of session.cleanup(); without a session
\* the call is over at once
DeleteBegin(st, callSid) ==
    IF Get(st, callSid) # 0
    THEN [st EXCEPT !.deleting = @ \cup {[callSid |-> callSid, id |-> Get(st, callSid)]}]
    ELSE [st EXCEPT !.gone = @ \cup CreatedFor(st, callSid)]

\* delete(callSid) after cleanup() has resolved
DeleteEnd(st, d) ==
    [st EXCEPT !.sessions = SelectSeq(@, LAMBDA e : e.callSid # d.callSid),
               !.deleting = @ \ {d},
               !.gone = @ \cup CreatedFor(st, d.callSid)]

StoreCreate ==
    /\ \E k \in StoreNames, c \in CallSids :
           /\ Len(stores[k].made) < MaxCreates
           /\ stores' = [stores EXCEPT ![k] = Create(@, c)]
    /\ UNCHANGED <<streamVars, gs, dp, db, media, cs>>

StoreDeleteBegin ==
    /\ \E k \in StoreNames, c \in CallSids :
           stores' = [stores EXCEPT ![k] = DeleteBegin(@, c)]
    /\ UNCHANGED <<streamVars, gs, dp, db, media, cs>>

StoreDeleteEnd ==
    /\ \E k \in StoreNames :
           \E d \in stores[k].deleting :
               stores' = [stores EXCEPT ![k] = DeleteEnd(@, d)]
    /\ UNCHANGED <<streamVars, gs, dp, db, media, cs>>

NextStores == StoreCreate \/ StoreDeleteBegin \/ StoreDeleteEnd

\* ------------------------------------------------------------------ date parser
\* the null a parser returns, set apart from every text
Null == <<"null">>

NoParse == [kind |-> "none"]

\* the calendar the clock is drawn from
Years == {2024, 2025}

ClockHours == {0, 3, 12, 20, 23}

\* offsets of the local time from UTC, in hours (America/New_York in winter,
\* UTC, Asia/Tokyo)
UtcOffsets == {-5, 0, 9}

IsLeap(y) == y % 4 = 0 /\ (y % 100 # 0 \/ y % 400 = 0)

DaysIn(y, m) ==
    IF m = 2 THEN (IF IsLeap(y) THEN 29 ELSE 28)
    ELSE IF m \in {4, 6, 9, 11} THEN 30 ELSE 31

\* Date.prototype.setDate(getDate() + 1): the day after, months and years
\* rolling over
AddDay(date) ==
    IF date.d + 1 <= DaysIn(date.y, date.m)
    THEN [date EXCEPT !.d = @ + 1]
    ELSE IF date.m < 12
    THEN [y |-> date.y, m |-> date.m + 1, d |-> 1]
    ELSE [y |-> date.y + 1, m |-> 1, d |-> 1]

SubDay(date) ==
    IF date.d > 1 THEN [date EXCEPT !.d = @ - 1]
    ELSE IF date.m > 1
    THEN [y |-> date.y, m |-> date.m - 1, d |-> DaysIn(date.y, date.m - 1)]
    ELSE [y |-> date.y - 1, m |-> 12, d |-> 31]

\* the UTC calendar date of the local time `hour` o'clock on `date`
UtcDate(date, hour, offset) ==
    IF hour - offset < 0 THEN SubDay(date)
    ELSE IF hour - offset >= 24 THEN AddDay(date)
    ELSE date

Digit(n) == <<"0", "1", "2", "3", "4", "5", "6", "7", "8", "9">>[n + 1]

PadStart2(n) == <<Digit(n \div 10), Digit(n % 10)>>

\* toISOString().split("T")[0]
IsoDate(date) ==
    <<Digit(date.y \div 1000), Digit((date.y \div 100) % 10),
      Digit((date.y \div 10) % 10), Digit(date.y % 10), "-">>
        \o PadStart2(date.m) \o <<"-">> \o PadStart2(date.d)

\* parseRelativeDate for the words "today" and "tomorrow", at the local time
\* `hour` o'clock on `date`
ParseRelativeDay(word, date, hour, offset) ==
    IF word = "today" THEN IsoDate(UtcDate(date, hour, offset))
    ELSE IF word = "tomorrow" THEN IsoDate(UtcDate(AddDay(date), hour, offset))
    ELSE Null

ParseDay ==
    /\ dp.kind = "date" /\ dp.word = "none"
    /\ \E w \in {"today", "tomorrow", "someday"} :
           dp' = [dp EXCEPT !.word = w,
                            !.out = ParseRelativeDay(w, dp.now, dp.hour, dp.offset)]
    /\ UNCHANGED <<streamVars, gs, stores, db, media, cs>>

NextDates == ParseDay

\* String.prototype.toLowerCase, on the letters the time texts use
LowerCased(s) ==
    [i \in 1..Len(s) |->
        IF s[i] = "A" THEN "a" ELSE IF s[i] = "P" THEN "p"
        ELSE IF s[i] = "M" THEN "m" ELSE IF s[i] = "N" THEN "n" ELSE s[i]]

IsDigits(s) ==
    \A i \in 1..Len(s) :
        s[i] \in {"0", "1", "2", "3", "4", "5", "6", "7", "8", "9"}

DigitValue(c) ==
    CHOOSE n \in 0..9 : Digit(n) = c

\* parseInt of one or two digits
ParseInt(s) ==
    IF Len(s) = 1 THEN DigitValue(s[1])
    ELSE 10 * DigitValue(s[1]) + DigitValue(s[2])

\* the match of /^(\d{1,2})(?::(\d{2}))?$/ on s: the groups, or <<>> without
\* a match; an absent group is <<>>
HoursMinutesMatch(s) ==
    IF Len(s) \in {1, 2} /\ IsDigits(s) THEN <<s, <<>>>>
    ELSE IF /\ Len(s) \in {4, 5}
            /\ s[Len(s) - 2] = ":"
            /\ IsDigits(SubSeq(s, 1, Len(s) - 3))
            /\ IsDigits(SubSeq(s, Len(s) - 1, Len(s)))
    THEN <<SubSeq(s, 1, Len(s) - 3), SubSeq(s, Len(s) - 1, Len(s))>>
    ELSE <<>>

\* the match of /^(\d{1,2}):(\d{2})$/
Time24Match(s) ==
    IF HoursMinutesMatch(s) # <<>> /\ HoursMinutesMatch(s)[2] # <<>>
    THEN HoursMinutesMatch(s) ELSE <<>>

\* the match of /^(\d{1,2})(?::(\d{2}))?\s*(am|pm)$/
TimeAmPmMatch(s) ==
    IF Len(s) >= 3 /\ SubSeq(s, Len(s) - 1, Len(s)) \in {<<"a", "m">>, <<"p", "m">>}
    THEN LET m == HoursMinutesMatch(TrimEnd(SubSeq(s, 1, Len(s) - 2)))
         IN IF m = <<>> THEN <<>>
            ELSE Append(m, SubSeq(s, Len(s) - 1, Len(s)))
    ELSE <<>>

\* a faulty conversion: 12 is not set apart
To24HourPlain(hours, period) ==
    IF period = <<"p", "m">> THEN hours + 12 ELSE hours

\* the hour of the 24-hour clock
To24Hour(hours, period) ==
    IF period = <<"p", "m">> /\ hours # 12 THEN hours + 12
    ELSE IF period = <<"a", "m">> /\ hours = 12 THEN 0
    ELSE hours

\* the result of parseTime once hours and minutes are known
FormatTime(hours, minutes) ==
    IF hours >= 0 /\ hours < 24 /\ minutes >= 0 /\ minutes < 60
    THEN PadStart2(hours) \o <<":">> \o PadStart2(minutes)
    ELSE Null

ParseTimeText(timeString) ==
    LET lower == Trim(LowerCased(timeString))
        time24Match == Time24Match(lower)
        timeAmPmMatch == TimeAmPmMatch(lower)
        time24 == IF time24Match = <<>> THEN Null
                  ELSE FormatTime(ParseInt(time24Match[1]), ParseInt(time24Match[2]))
    IN IF lower = <<"n", "o", "o", "n">> THEN <<"1", "2", ":", "0", "0">>
       ELSE IF lower = <<"m", "i", "d", "n", "i", "g", "h", "t">>
       THEN <<"0", "0", ":", "0", "0">>
       ELSE IF time24 # Null THEN time24
       ELSE IF timeAmPmMatch # <<>>
       THEN FormatTime(To24Hour(ParseInt(timeAmPmMatch[1]), timeAmPmMatch[3]),
                       IF timeAmPmMatch[2] = <<>> THEN 0
                       ELSE ParseInt(timeAmPmMatch[2]))
       ELSE Null

\* the decimal digits of a number below 100, as toString writes them
Decimal(n) ==
    IF n < 10 THEN <<Digit(n)>> ELSE PadStart2(n)

\* the hours and minutes the time texts are written from
TextHours == 0..13 \cup {23, 24, 25}

TextMinutes == 0..60

\* the time texts: a clock time of 12 or 24 hours, with and without minutes,
\* a space and a period in either case
ClockTexts ==
    UNION {
        {[hours |-> h, minutes |-> m, period |-> p,
          text |-> hw \o (IF m = -1 THEN <<>> ELSE <<":">> \o PadStart2(m)) \o sp \o p] :
            hw \in {Decimal(h), PadStart2(h)}, m \in {-1} \cup TextMinutes,
            sp \in {<<>>, <<" ">>},
            p \in {<<>>, <<"a", "m">>, <<"p", "m">>, <<"P", "M">>}} :
        h \in TextHours}

\* the time texts that are no clock time
WordTexts ==
    {[hours |-> -1, minutes |-> -1, period |-> <<>>, text |-> w] :
        w \in {<<"n", "o", "o", "n">>, <<"N", "o", "o", "n">>, <<" ", "n", "o", "o", "n">>,
               <<"m", "i", "d", "n", "i", "g", "h", "t">>,
               <<"s", "o", "o", "n">>, <<>>, <<"2", ":", "3", "p", "m">>,
               <<"1", "2", "3", "p", "m">>, <<"p", "m">>, <<"2", "p">>}}

ParseATime ==
    /\ dp.kind = "time" /\ dp.out = <<"unparsed">>
    /\ dp' = [dp EXCEPT !.out = ParseTimeText(dp.in.text)]
    /\ UNCHANGED <<streamVars, gs, stores, db, media, cs>>

NextTimes == ParseATime

\* ------------------------------------------------------------------ bookings table
\* the bookings each call may ask for
MaxRequests == 2

\* times are counted in half appointments: an appointment lasts
\* appointmentDurationMinutes, two units, and starts at any of these
SlotStarts == 1..3

SlotLength == 2

NoRequest == [pc |-> "idle", start |-> 0, end |-> 0, requests |-> 0]

\* the bookings of one business and the booking listeners of its calls
NewDb == [bookings |-> <<>>, calls |-> [c \in CallSids |-> NoRequest]]

\* the rows .lt("start_time", endTime).gt("end_time", startTime) selects
Conflicts(bookings, startTime, endTime) ==
    {i \in 1..Len(bookings) :
        bookings[i].start_time < endTime /\ bookings[i].end_time > startTime}

\* booking_complete (or a complete reply on the webhook route) with a valid
\* date and time: the listener awaits loadBusinessConfig
BookingRequested(c) ==
    /\ db.calls[c].pc \in {"idle", "unavailable", "created", "failed"}
    /\ db.calls[c].requests < MaxRequests
    /\ \E s \in SlotStarts :
           db' = [db EXCEPT !.calls[c] =
                     [pc |-> "loadConfig", start |-> s, end |-> s + SlotLength,
                      requests |-> @.requests + 1]]
    /\ UNCHANGED <<streamVars, gs, stores, dp, media, cs>>

\* checkDbAvailability up to its query: the notice and working-hours checks
\* pass or fail
ConfigChecked(c) ==
    /\ db.calls[c].pc = "loadConfig"
    /\ \E ok \in BOOLEAN :
           db' = [db EXCEPT !.calls[c].pc = IF ok THEN "select" ELSE "unavailable"]
    /\ UNCHANGED <<streamVars, gs, stores, dp, media, cs>>

\* the query for overlapping bookings returns: rows, no rows or an error
ConflictsSelected(c) ==
    /\ db.calls[c].pc = "select"
    /\ \E error \in BOOLEAN :
           db' = [db EXCEPT !.calls[c].pc =
                     IF error \/ Conflicts(db.bookings, db.calls[c].start,
                                            db.calls[c].end) # {}
                     THEN "unavailable" ELSE "insert"]
    /\ UNCHANGED <<streamVars, gs, stores, dp, media, cs>>

\* createDbBooking: the insert succeeds or fails
BookingInserted(c) ==
    /\ db.calls[c].pc = "insert"
    /\ \E error \in BOOLEAN :
           db' = IF error THEN [db EXCEPT !.calls[c].pc = "failed"]
                 ELSE [db EXCEPT !.calls[c].pc = "created",
                                 !.bookings = Append(@,
                                     [call |-> c, start_time |-> db.calls[c].start,
                                      end_time |-> db.calls[c].end])]
    /\ UNCHANGED <<streamVars, gs, stores, dp, media, cs>>

NextBookings ==
    \E c \in CallSids :
        \/ BookingRequested(c)
        \/ ConfigChecked(c)
        \/ ConflictsSelected(c)
        \/ BookingInserted(c)

\* ------------------------------------------------------------------ sessionStore and its timers
\* Time is counted in minutes.  TTL_MS is 30 minutes, the grace delay of
\* POST /voice/status one minute, the cleanup interval five minutes.
TTL_MS == 30

GraceDelay == 1

CleanupInterval == 5

\* the clock is followed for MaxClock minutes; calls come in during the first
\* MaxArrival minutes
MaxClock == 36

MaxArrival == 2

\* CallStatus values Twilio posts to /voice/status
CallStatuses == {"ringing", "in-progress", "completed", "failed", "busy", "no-answer"}

TerminalStatuses == {"completed", "failed", "busy", "no-answer"}

\* no entry of the Map, and the undefined getSession and updateSession return
Absent == [present |-> FALSE, createdAt |-> 0, status |-> "none"]

NoReturn == [op |-> "none", callSid |-> "none", value |-> Absent]

NoStatus == [callSid |-> "none", CallStatus |-> "none"]

\* `line` is where a call stands: ringing before /voice/incoming, open,
\* updating while /voice/status awaits updateCallSession, ended after it;
\* `held` tells that a gather request holds the session it got and awaits the
\* dialogue engine; `timers` are the pending grace timers; `ret` is what the
\* getSession or updateSession of the last step returned, `posted` the
\* status the last step received
NewSessionStore ==
    [ now |-> 0,
      sessions |-> [c \in CallSids |-> Absent],
      line |-> [c \in CallSids |-> "ringing"],
      posted |-> NoStatus,
      held |-> [c \in CallSids |-> FALSE],
      timers |-> {},
      cleanupDue |-> CleanupInterval,
      ret |-> NoReturn ]

\* createSession
SessionStoreCreate(sessions, now, callSid) ==
    [sessions EXCEPT ![callSid] =
        [present |-> TRUE, createdAt |-> now, status |-> "collecting"]]

\* a getSession without the age test
SessionStoreGetAnyAge(sessions, now, callSid) ==
    [sessions |-> sessions, ret |-> sessions[callSid]]

\* getSession: the Map after the call and what is returned
SessionStoreGet(sessions, now, callSid) ==
    IF ~sessions[callSid].present
    THEN [sessions |-> sessions, ret |-> Absent]
    ELSE IF now - sessions[callSid].createdAt > TTL_MS
    THEN [sessions |-> [sessions EXCEPT ![callSid] = Absent], ret |-> Absent]
    ELSE [sessions |-> sessions, ret |-> sessions[callSid]]

\* Object.assign(session, updates): every key of updates is copied
ObjectAssign(session, updates) ==
    [session EXCEPT !.status = updates.status, !.createdAt = updates.createdAt]

\* updateSession
SessionStoreUpdate(sessions, now, callSid, updates) ==
    LET got == SessionStoreGet(sessions, now, callSid) IN
    IF ~got.ret.present THEN got
    ELSE [sessions |-> [got.sessions EXCEPT ![callSid] = ObjectAssign(@, updates)],
          ret |-> ObjectAssign(got.ret, updates)]

\* deleteSession
SessionStoreDelete(sessions, callSid) == [sessions EXCEPT ![callSid] = Absent]

\* cleanup
SessionStoreCleanup(sessions, now) ==
    [c \in CallSids |->
        IF sessions[c].present /\ now - sessions[c].createdAt > TTL_MS
        THEN Absent ELSE sessions[c]]

\* POST /voice/incoming: getSession, and createSession when there is none
SessIncoming ==
    \E c \in CallSids :
        /\ cs.line[c] = "ringing" /\ cs.now <= MaxArrival
        /\ LET got == SessionStoreGet(cs.sessions, cs.now, c) IN
           cs' = [cs EXCEPT !.line[c] = "open",
                            !.sessions = IF got.ret.present THEN got.sessions
                                         ELSE SessionStoreCreate(got.sessions, cs.now, c),
                            !.ret = NoReturn, !.posted = NoStatus]
        /\ UNCHANGED <<streamVars, gs, stores, dp, db, media>>

\* POST /voice/gather: getSession; with a session the request goes on to the
\* dialogue engine, without one it hangs up
SessGather ==
    \E c \in CallSids :
        /\ cs.line[c] = "open" /\ ~cs.held[c]
        /\ LET got == SessionStoreGet(cs.sessions, cs.now, c) IN
           cs' = [cs EXCEPT !.sessions = got.sessions,
                            !.held[c] = got.ret.present,
                            !.ret = [op |-> "get", callSid |-> c, value |-> got.ret],
                            !.posted = NoStatus]
        /\ UNCHANGED <<streamVars, gs, stores, dp, db, media>>

\* POST /voice/gather after an await: the session object the request holds,
\* with the status it has set, is given to updateSession.  The object is the
\* one in the Map while the entry is there, so its createdAt is the entry's.
SessUpdate ==
    \E c \in CallSids, status \in {"collecting", "completed"} :
        /\ cs.held[c]
        /\ LET updates == [status |-> status,
                           createdAt |-> cs.sessions[c].createdAt]
               upd == SessionStoreUpdate(cs.sessions, cs.now, c, updates)
           IN cs' = [cs EXCEPT !.sessions = upd.sessions,
                               !.held[c] = FALSE,
                               !.ret = [op |-> "update", callSid |-> c,
                                        value |-> upd.ret],
                               !.posted = NoStatus]
        /\ UNCHANGED <<streamVars, gs, stores, dp, db, media>>

\* POST /voice/status: a terminal status awaits updateCallSession, any other
\* status is answered at once
SessStatus ==
    \E c \in CallSids, CallStatus \in CallStatuses :
        /\ cs.line[c] \in {"ringing", "open"}
        /\ cs' = [cs EXCEPT !.posted = [callSid |-> c, CallStatus |-> CallStatus],
                            !.line[c] = IF CallStatus \in TerminalStatuses
                                        THEN "updating" ELSE @,
                            !.ret = NoReturn]
        /\ UNCHANGED <<streamVars, gs, stores, dp, db, media>>

\* POST /voice/status after updateCallSession: the grace timer is set
SessStatusUpdated ==
    \E c \in CallSids :
        /\ cs.line[c] = "updating"
        /\ cs' = [cs EXCEPT !.line[c] = "ended",
                            !.timers = @ \cup {[callSid |-> c,
                                                due |-> cs.now + GraceDelay]},
                            !.ret = NoReturn, !.posted = NoStatus]
        /\ UNCHANGED <<streamVars, gs, stores, dp, db, media>>

\* a grace timer fires: deleteSession
SessGraceFires ==
    \E t \in cs.timers :
        /\ t.due <= cs.now
        /\ cs' = [cs EXCEPT !.sessions = SessionStoreDelete(@, t.callSid),
                            !.timers = @ \ {t},
                            !.ret = NoReturn, !.posted = NoStatus]
        /\ UNCHANGED <<streamVars, gs, stores, dp, db, media>>

\* the cleanup interval fires
SessCleanupFires ==
    /\ cs.cleanupDue <= cs.now
    /\ cs' = [cs EXCEPT !.sessions = SessionStoreCleanup(@, cs.now),
                        !.cleanupDue = @ + CleanupInterval,
                        !.ret = NoReturn, !.posted = NoStatus]
    /\ UNCHANGED <<streamVars, gs, stores, dp, db, media>>

\* a minute passes; a timer that is due fires before the next minute, and
\* updateCallSession returns within the minute
SessTick ==
    /\ cs.now < MaxClock
    /\ \A c \in CallSids : cs.line[c] # "updating"
    /\ cs.cleanupDue > cs.now
    /\ \A t \in cs.timers : t.due > cs.now
    /\ cs' = [cs EXCEPT !.now = @ + 1, !.ret = NoReturn, !.posted = NoStatus]
    /\ UNCHANGED <<streamVars, gs, stores, dp, db, media>>

NextSessions ==
    \/ SessIncoming \/ SessGather \/ SessUpdate
    \/ SessStatus \/ SessStatusUpdated
    \/ SessGraceFires \/ SessCleanupFires \/ SessTick

\* ------------------------------------------------------------------ initial state
CallsIdle ==
    /\ ss = NewSession
    /\ wsOpen = TRUE
    /\ hsPc = "idle"
    /\ hasBusiness = FALSE
    /\ bridgeSession = FALSE
    /\ registered = FALSE
    /\ stopPc = "idle"
    /\ closePc = "idle"
    /\ sttOpen = FALSE
    /\ rt = NewRealtimeSession
    /\ net = <<>>
    /\ srv = NewServer
    /\ gs = NewCall
    /\ stores = [k \in StoreNames |-> NewStore]
    /\ db = NewDb
    /\ media = [arrived |-> 0, forwarded |-> <<>>]
    /\ cs = NewSessionStore

Init ==
    /\ CallsIdle
    /\ dp = NoParse

\* the clock reads any hour of any day of the calendar, in any of the zones
InitDates ==
    /\ CallsIdle
    /\ \E y \in Years, m \in 1..12, h \in ClockHours, o \in UtcOffsets :
           \E d \in 1..DaysIn(y, m) :
               dp = [kind |-> "date", now |-> [y |-> y, m |-> m, d |-> d],
                     hour |-> h, offset |-> o, word |-> "none", out |-> Null]

\* parseTime is handed any of the time texts
InitTimes ==
    /\ CallsIdle
    /\ \E in \in ClockTexts \cup WordTexts :
           dp = [kind |-> "time", in |-> in, out |-> <<"unparsed">>]

\* ------------------------------------------------------------------ bridge actions
\* the audio frames of a call
MaxFrames == 4

\* streamingSessionStore.create, setAudioCallbacks and setupSessionHandlers
CreateSession == [NewSession EXCEPT !.listeners = TRUE]

\* handleStart: the start message; without a businessId nothing is awaited
\* before session.start()
WsStart ==
    /\ wsOpen /\ hsPc = "idle"
    /\ \E b \in BOOLEAN :
        /\ hasBusiness' = b
        /\ IF b
           THEN /\ hsPc' = "loadConfig"
                /\ ss' = S /\ UNCHANGED <<bridgeSession, registered, sttOpen>>
           ELSE /\ hsPc' = "done"
                /\ bridgeSession' = TRUE
                /\ registered' = TRUE
                /\ \E stt \in SttStarts :
                       /\ ss' = Start(CreateSession, stt)
                       /\ sttOpen' = (stt = "connected")
    /\ UNCHANGED <<rtVars, wsOpen, stopPc, closePc>>

\* handleStart after loadBusinessConfig: creates the session, awaits createCallSession
HsConfigLoaded ==
    /\ hsPc = "loadConfig"
    /\ hsPc' = "createDb"
    /\ ss' = CreateSession
    /\ bridgeSession' = TRUE
    /\ registered' = TRUE
    /\ UNCHANGED <<rtVars, wsOpen, hasBusiness, stopPc, closePc, sttOpen>>

\* handleStart after createCallSession: session.start()
HsDbCreated ==
    /\ hsPc = "createDb"
    /\ hsPc' = "done"
    /\ \E stt \in SttStarts :
           /\ ss' = Start(S, stt)
           /\ sttOpen' = (stt = "connected")
    /\ UNCHANGED <<rtVars, wsOpen, hasBusiness, bridgeSession, registered, stopPc, closePc>>

\* handleStop: the stop message.  session.dbSessionId is read here only: it is
\* set when handleStart's createCallSession returned an id, and that the call
\* returned an id or null is resolved at this read.
WsStop ==
    /\ wsOpen /\ hsPc # "idle" /\ stopPc = "idle"
    /\ IF bridgeSession
       THEN \E dbSessionId \in {FALSE, hsPc = "done" /\ hasBusiness} :
            IF dbSessionId
            THEN stopPc' = "updating" /\ ss' = S /\ UNCHANGED sttOpen
            ELSE IF registered
            THEN stopPc' = "cleanup" /\ ss' = CleanupBegin(S) /\ sttOpen' = FALSE
            ELSE stopPc' = "nosession" /\ ss' = S /\ UNCHANGED sttOpen
       ELSE stopPc' = "nosession" /\ ss' = S /\ UNCHANGED sttOpen
    /\ UNCHANGED <<rtVars, wsOpen, hsPc, hasBusiness, bridgeSession, registered, closePc>>

\* handleStop after updateCallSession: streamingSessionStore.delete
StopUpdated ==
    /\ stopPc = "updating"
    /\ IF registered
       THEN stopPc' = "cleanup" /\ ss' = CleanupBegin(S) /\ sttOpen' = FALSE
       ELSE stopPc' = "nosession" /\ ss' = S /\ UNCHANGED sttOpen
    /\ UNCHANGED <<rtVars, wsOpen, hsPc, hasBusiness, bridgeSession, registered, closePc>>

\* streamingSessionStore.delete after session.cleanup()
StopDeleted ==
    /\ stopPc = "cleanup"
    /\ stopPc' = "done"
    /\ ss' = CleanupEnd(S)
    /\ registered' = FALSE
    /\ UNCHANGED <<rtVars, wsOpen, hsPc, hasBusiness, bridgeSession, closePc, sttOpen>>

\* the socket's close handler
WsClose ==
    /\ wsOpen
    /\ wsOpen' = FALSE
    /\ IF hsPc # "idle" /\ registered
       THEN closePc' = "cleanup" /\ ss' = CleanupBegin(S) /\ sttOpen' = FALSE
       ELSE closePc' = "nosession" /\ ss' = S /\ UNCHANGED sttOpen
    /\ UNCHANGED <<rtVars, hsPc, hasBusiness, bridgeSession, registered, stopPc>>

\* handleMedia: a media message of the inbound track, the arrived-th of the
\* call; session.processAudio hands the frame to stt.sendBase64, which sends
\* it on when the speech-to-text connection has been started
WsMedia ==
    /\ wsOpen /\ hsPc # "idle" /\ stopPc = "idle"
    /\ media.arrived < MaxFrames
    /\ ss' = S
    /\ media' = [arrived |-> media.arrived + 1,
                 forwarded |-> IF bridgeSession /\ sttOpen
                               THEN Append(media.forwarded, media.arrived + 1)
                               ELSE media.forwarded]
    /\ UNCHANGED <<bridgeVars, rt, net, srv, gs, stores, dp, db, cs>>

CloseDeleted ==
    /\ closePc = "cleanup"
    /\ closePc' = "done"
    /\ ss' = CleanupEnd(S)
    /\ registered' = FALSE
    /\ UNCHANGED <<rtVars, wsOpen, hsPc, hasBusiness, bridgeSession, stopPc, sttOpen>>

\* the bridge's booking_complete listener after checkDbAvailability
BookingChecked ==
    \E i \in 1..Len(ss.bk), r \in {"creating", "unavailable", "failed"} :
        /\ ss.bk[i] = "checking"
        /\ ss' = [S EXCEPT !.bk[i] = r]
        /\ UNCHANGED <<bridgeVars, rtVars>>

\* the bridge's booking_complete listener after createDbBooking
BookingCreated ==
    \E i \in 1..Len(ss.bk), r \in {"created", "failed"} :
        /\ ss.bk[i] = "creating"
        /\ ss' = [S EXCEPT !.bk[i] = r]
        /\ UNCHANGED <<bridgeVars, rtVars>>

\* ------------------------------------------------------------------ speech-to-text events
SttLive == sttOpen /\ ss.startPc # "idle"

SpeechStarted ==
    /\ SttLive
    /\ ss' = ResetSilenceTimer(IF ss.isSpeaking THEN HandleBargeIn(S) ELSE S)
    /\ UNCHANGED <<bridgeVars, rtVars>>

TranscriptionOf(texts) ==
    /\ SttLive
    /\ \E isFinal \in BOOLEAN, text \in texts :
        LET sep == IF ss.currentTranscript # <<>> THEN <<" ">> ELSE <<>>
            acc == IF isFinal
                   THEN [S EXCEPT !.currentTranscript = @ \o sep \o text]
                   ELSE S
        IN /\ Len(acc.currentTranscript) <= MaxTranscriptLen
           /\ ss' = ResetSilenceTimer(acc)
    /\ UNCHANGED <<bridgeVars, rtVars>>

Transcription == TranscriptionOf(TranscriptTexts)

BlankTranscription == TranscriptionOf(BlankTexts)

SpeechFinal ==
    /\ SttLive
    /\ ss' = ScheduleProcesing(S)
    /\ UNCHANGED <<bridgeVars, rtVars>>

UtteranceEnd ==
    /\ SttLive
    /\ ss' = (IF Trim(ss.currentTranscript) # <<>> THEN ScheduleProcesing(S) ELSE S)
    /\ UNCHANGED <<bridgeVars, rtVars>>

\* ------------------------------------------------------------------ timers
TimerFires(maxTurns) ==
    /\ \E id \in ss.timers :
           LET n == TimerCallback(ClearTimeout(S, id))
           IN /\ n.turns <= maxTurns
              /\ ss' = n
    /\ UNCHANGED <<bridgeVars, rtVars>>

SilenceTimerFires == TimerFires(MaxTurns)

TdSilenceTimerFires == TimerFires(MaxTeardownTurns)

\* the 3000 ms timer of processUserInput emits session_complete
SessionCompleteTimerFires ==
    /\ ss.completeTimers > 0
    /\ ss' = Emit([S EXCEPT !.completeTimers = @ - 1],
                  "session_complete", ss.collectedData)
    /\ UNCHANGED <<bridgeVars, rtVars>>

\* ------------------------------------------------------------------ dialogue engine
AIReturns ==
    /\ ss.turnPc = "awaitAI"
    /\ \E r \in CollectingReplies \cup CompleteReplies : ss' = OnAIResponse(S, r)
    /\ UNCHANGED <<bridgeVars, rtVars>>

\* getAIResponse resolves with what processConversationStreaming makes of the
\* model's output
EngineReplies ==
    /\ ss.turnPc = "awaitAI"
    /\ \E out \in EngineOutputs :
           ss' = OnAIResponse(S, ProcessConversationStreaming(out))
    /\ UNCHANGED <<bridgeVars, rtVars>>

AIThrows ==
    /\ ss.turnPc = "awaitAI"
    /\ ss' = OnAIError(S)
    /\ UNCHANGED <<bridgeVars, rtVars>>

\* ------------------------------------------------------------------ text-to-speech
TtsAudioChunk ==
    \E u \in 1..MaxUtt :
        /\ ss.tts[u].st = "streaming"
        /\ ss.tts[u].n < MaxChunks
        /\ ss' = OnAudioChunk([S EXCEPT !.tts[u].n = @ + 1], u)
        /\ UNCHANGED <<bridgeVars, rtVars>>

TtsSynthesisComplete ==
    \E u \in 1..MaxUtt :
        /\ ss.tts[u].st = "streaming"
        /\ ss' = SynthesisResolved(
                     ProcessAudioQueue([S EXCEPT !.tts[u] = [st |-> "done", n |-> 0, cut |-> FALSE]]), u)
        /\ UNCHANGED <<bridgeVars, rtVars>>

TtsThrows ==
    \E u \in 1..MaxUtt :
        /\ ss.tts[u].st = "streaming"
        /\ ss' = SynthesisRejected([S EXCEPT !.tts[u] = [st |-> "failed", n |-> 0, cut |-> FALSE]], u)
        /\ UNCHANGED <<bridgeVars, rtVars>>

\* ------------------------------------------------------------------ realtime: text extraction
\* An utterance of the realtime conversation is a sequence of words; a fixed
\* phrase the code searches for is one word.
ConfirmationPhrases ==
    {"you're all set", "i've got you down", "see you then", "you're booked",
     "appointment confirmed", "have a great day"}

\* words on which /[A-Z][a-z]+/i matches from their first character
AlphaWords == {"Bob", "going", "so", "tomorrow", "today", "noon"}

\* words of at most two letters
ShortWords == {"so"}

ToLowerCase(w) == IF w = "Bob" THEN "bob" ELSE w

CommonWords ==
    {"can", "will", "could", "would", "should", "may", "might", "hello", "hi",
     "yes", "no", "going", "looking", "trying", "wanting", "hoping", "calling",
     "booking", "scheduling"}

SkipWords == {"for", "on", "at", "the", "this", "that", "we", "you", "i"}

\* String.match of /(?:intro)\s+([A-Z][a-z]+)/i: the capture of the first match
FirstCapture(msg, intros) ==
    LET hits == {i \in 1..(Len(msg) - 1) :
                    msg[i] \in intros /\ msg[i + 1] \in AlphaWords}
    IN IF hits = {} THEN Undefined
       ELSE msg[(CHOOSE i \in hits : \A j \in hits : i <= j) + 1]

\* the first word of msg that is in the set ws
FirstWordIn(msg, ws) ==
    LET hits == {i \in 1..Len(msg) : msg[i] \in ws}
    IN IF hits = {} THEN Undefined
       ELSE msg[CHOOSE i \in hits : \A j \in hits : i <= j]

\* dates are named by their distance from the current day
ParseRelativeDate(w) ==
    IF w = "today" THEN "day+0"
    ELSE IF w = "tomorrow" THEN "day+1"
    ELSE Undefined

ParseTime(w) ==
    IF w = "noon" THEN "12:00"
    ELSE IF w = "midnight" THEN "00:00"
    ELSE IF w = "2pm" THEN "14:00"
    ELSE IF w = "9am" THEN "09:00"
    ELSE Undefined

\* extractDateTime: the patterns are tried in their order, each on the whole
\* message; the first pattern whose match parses wins
ExtractDateTime(msg) ==
    LET d == FirstWordIn(msg, {"tomorrow", "today"})
        ampm == FirstWordIn(msg, {"2pm", "9am"})
        named == FirstWordIn(msg, {"noon", "midnight"})
    IN [date |-> IF d # Undefined THEN ParseRelativeDate(d) ELSE Undefined,
        time |-> IF ampm # Undefined /\ ParseTime(ampm) # Undefined
                 THEN ParseTime(ampm)
                 ELSE IF named # Undefined THEN ParseTime(named)
                 ELSE Undefined]

\* ------------------------------------------------------------------ realtime: session
UserUtterances ==
    { <<"my name is", "Bob", "tomorrow", "2pm">>, <<"today", "noon">> }

AssistantUtterances ==
    { <<"you're all set">>, <<"so", "tomorrow", "9am">> }

FeedbackText == <<"slot taken">>

RtSetState(r, newState) ==
    Emit([r EXCEPT !.state = newState], "state_change",
         [oldState |-> r.state, newState |-> newState])

\* OpenAIRealtimeSession.sendEvent
SendEvent(r, type) ==
    IF r.isConnected THEN [r EXCEPT !.wsOut = Append(@, type)] ELSE r

CreateResponse(r) == SendEvent(r, "response.create")

\* the session's response_cancelled listener
OnResponseCancelled(r) == RtSetState([r EXCEPT !.isSpeaking = FALSE], "listening")

CancelResponse(r) ==
    IF r.currentResponseId = 0 THEN r
    ELSE OnResponseCancelled(
             Emit([SendEvent(r, "response.cancel")
                      EXCEPT !.cancelled = @ \cup {r.currentResponseId}],
                  "response_cancelled", <<>>))

RtHandleBargeIn(r) ==
    LET a == [CancelResponse(r) EXCEPT !.isSpeaking = FALSE]
        b == [a EXCEPT !.sent = Append(@, [k |-> "clear", u |-> 0])]
    IN RtSetState(Emit(b, "barge_in", <<>>), "listening")

\* a faulty sendFeedbackToAI: the feedback takes the place of the last entry
SendFeedbackToAIReplaces(r, message) ==
    CreateResponse([r EXCEPT !.conversationTranscript =
                                 IF @ = <<>> THEN <<>>
                                 ELSE [@ EXCEPT ![Len(@)] =
                                          [role |-> "assistant", content |-> message]]])

SendFeedbackToAI(r, message) ==
    CreateResponse([r EXCEPT !.conversationTranscript =
                                 Append(@, [role |-> "assistant", content |-> message])])

\* a faulty extractBookingData: a date found in the message replaces the one held
ExtractBookingDataOverwrites(r, userMessage) ==
    LET extracted == ExtractDateTime(userMessage)
        b == IF extracted.date # Undefined
             THEN [r EXCEPT !.collectedData.appointmentDate = extracted.date]
             ELSE r
        c == IF extracted.time # Undefined /\ b.collectedData.appointmentTime = Undefined
             THEN [b EXCEPT !.collectedData.appointmentTime = extracted.time]
             ELSE b
    IN [c EXCEPT !.collectedData.phoneNumber = "from"]

\* extractBookingData: a field that is already set is left alone
ExtractBookingData(r, userMessage) ==
    LET name == FirstCapture(userMessage, {"my name is", "name's"})
        a == IF /\ r.collectedData.customerName = Undefined
                /\ name # Undefined
                /\ ToLowerCase(name) \notin CommonWords
                /\ name \notin ShortWords
             THEN [r EXCEPT !.collectedData.customerName = name]
             ELSE r
        extracted == ExtractDateTime(userMessage)
        b == IF extracted.date # Undefined /\ a.collectedData.appointmentDate = Undefined
             THEN [a EXCEPT !.collectedData.appointmentDate = extracted.date]
             ELSE a
        c == IF extracted.time # Undefined /\ b.collectedData.appointmentTime = Undefined
             THEN [b EXCEPT !.collectedData.appointmentTime = extracted.time]
             ELSE b
    IN [c EXCEPT !.collectedData.phoneNumber = "from"]

\* a faulty checkBookingComplete: it does not look for a confirmation phrase
CheckBookingCompleteUnconfirmed(r, aiResponse) ==
    LET extracted == ExtractDateTime(aiResponse)
        a == IF extracted.date # Undefined /\ r.collectedData.appointmentDate = Undefined
             THEN [r EXCEPT !.collectedData.appointmentDate = extracted.date]
             ELSE r
        c == IF extracted.time # Undefined /\ a.collectedData.appointmentTime = Undefined
             THEN [a EXCEPT !.collectedData.appointmentTime = extracted.time]
             ELSE a
        hasAllData == /\ c.collectedData.customerName # Undefined
                      /\ c.collectedData.appointmentDate # Undefined
                      /\ c.collectedData.appointmentTime # Undefined
    IN IF hasAllData
       THEN [Emit(c, "booking_complete", c.collectedData)
                EXCEPT !.bookingCompletes = @ + 1, !.completeTimers = @ + 1]
       ELSE c

CheckBookingComplete(r, aiResponse) ==
    LET extracted == ExtractDateTime(aiResponse)
        a == IF extracted.date # Undefined /\ r.collectedData.appointmentDate = Undefined
             THEN [r EXCEPT !.collectedData.appointmentDate = extracted.date]
             ELSE r
        b == IF extracted.time # Undefined /\ a.collectedData.appointmentTime = Undefined
             THEN [a EXCEPT !.collectedData.appointmentTime = extracted.time]
             ELSE a
        n1 == FirstCapture(aiResponse, {"so", "great", "perfect", "thanks", "thank you"})
        n2 == FirstCapture(aiResponse, {"see you then"})
        n3 == FirstCapture(aiResponse, {"got you down", "you're booked"})
        Usable(n) == n # Undefined /\ ToLowerCase(n) \notin SkipWords /\ n \notin ShortWords
        c == IF b.collectedData.customerName # Undefined THEN b
             ELSE IF Usable(n1) THEN [b EXCEPT !.collectedData.customerName = n1]
             ELSE IF Usable(n2) THEN [b EXCEPT !.collectedData.customerName = n2]
             ELSE IF Usable(n3) THEN [b EXCEPT !.collectedData.customerName = n3]
             ELSE b
        hasAllData == /\ c.collectedData.customerName # Undefined
                      /\ c.collectedData.appointmentDate # Undefined
                      /\ c.collectedData.appointmentTime # Undefined
        isConfirming == \E i \in 1..Len(aiResponse) : aiResponse[i] \in ConfirmationPhrases
    IN IF hasAllData /\ isConfirming
       THEN [Emit(c, "booking_complete", c.collectedData)
                EXCEPT !.bookingCompletes = @ + 1, !.completeTimers = @ + 1]
       ELSE c

\* OpenAIRealtimeSession.handleServerEvent and the session's listener of the
\* event it emits
HandleServerEvent(r, ev) ==
    CASE ev.type = "speech_started" ->
            LET a == [r EXCEPT !.isUserSpeaking = TRUE]
            IN IF a.isSpeaking THEN RtHandleBargeIn(a) ELSE a
      [] ev.type = "speech_stopped" -> [r EXCEPT !.isUserSpeaking = FALSE]
      [] ev.type = "transcription.completed" ->
            ExtractBookingData(
                [r EXCEPT !.conversationTranscript =
                              Append(@, [role |-> "user", content |-> ev.text])],
                ev.text)
      [] ev.type = "response.created" ->
            RtSetState([r EXCEPT !.currentResponseId = ev.id], "processing")
      [] ev.type = "audio_transcript.done" ->
            CheckBookingComplete(
                [r EXCEPT !.conversationTranscript =
                              Append(@, [role |-> "assistant", content |-> ev.text])],
                ev.text)
      [] ev.type = "audio.delta" ->
            LET a == IF ~r.isSpeaking
                     THEN RtSetState([r EXCEPT !.isSpeaking = TRUE], "speaking")
                     ELSE r
            IN [a EXCEPT !.sent = Append(@, [k |-> "audio", u |-> ev.id])]
      [] ev.type = "audio.done" ->
            RtSetState([r EXCEPT !.isSpeaking = FALSE], "listening")

R == Begin(rt)

\* ------------------------------------------------------------------ realtime: actions
streamingVars == <<ss, bridgeVars, otherVars>>

\* start() up to the await of realtimeSession.connect()
RtStart ==
    /\ rt.startPc = "idle"
    /\ rt' = [RtSetState(R, "initializing") EXCEPT !.startPc = "connecting"]
    /\ UNCHANGED <<net, srv, streamingVars>>

\* the socket opened: connect() resolves, start() sends the greeting request
RtConnected ==
    /\ rt.startPc = "connecting"
    /\ LET a == RtSetState([R EXCEPT !.isConnected = TRUE], "greeting")
           b == IF a.greetingSent THEN a
                ELSE [CreateResponse(a) EXCEPT !.greetingSent = TRUE]
       IN rt' = [RtSetState(b, "listening") EXCEPT !.startPc = "done"]
    /\ UNCHANGED <<net, srv, streamingVars>>

\* the socket failed to open: connect() rejects
RtConnectFailed ==
    /\ rt.startPc = "connecting"
    /\ rt' = [RtSetState(R, "failed") EXCEPT !.startPc = "failed"]
    /\ UNCHANGED <<net, srv, streamingVars>>

ToClient(ev) == Len(net) < MaxNet /\ net' = Append(net, ev)

StartResponse ==
    /\ srv.resp = 0 /\ srv.made < MaxResponses
    /\ ToClient([type |-> "response.created", id |-> srv.made + 1, text |-> <<>>])
    /\ srv' = [srv EXCEPT !.resp = srv.made + 1, !.made = @ + 1, !.phase = "audio",
                          !.n = 0, !.turn = FALSE]

\* the server reads the client's next request
SrvTakesRequest ==
    /\ rt.wsOut # <<>>
    /\ rt' = [R EXCEPT !.wsOut = Tail(@)]
    /\ IF Head(rt.wsOut) = "response.cancel"
       THEN srv' = [srv EXCEPT !.resp = 0, !.phase = "idle", !.n = 0] /\ UNCHANGED net
       ELSE IF srv.resp = 0 /\ srv.made < MaxResponses /\ Len(net) < MaxNet
       THEN StartResponse
       ELSE UNCHANGED <<net, srv>>
    /\ UNCHANGED streamingVars

\* server-side voice activity detection answers the caller's turn
SrvVadResponse ==
    /\ rt.isConnected /\ srv.turn
    /\ StartResponse
    /\ rt' = R
    /\ UNCHANGED streamingVars

SrvAudioDelta ==
    /\ srv.resp # 0 /\ srv.phase = "audio" /\ srv.n < MaxChunks
    /\ ToClient([type |-> "audio.delta", id |-> srv.resp, text |-> <<>>])
    /\ srv' = [srv EXCEPT !.n = @ + 1]
    /\ rt' = R
    /\ UNCHANGED streamingVars

SrvAudioDone ==
    /\ srv.resp # 0 /\ srv.phase = "audio"
    /\ ToClient([type |-> "audio.done", id |-> srv.resp, text |-> <<>>])
    /\ srv' = [srv EXCEPT !.phase = "text", !.n = 0]
    /\ rt' = R
    /\ UNCHANGED streamingVars

SrvTranscriptDone ==
    /\ srv.resp # 0 /\ srv.phase = "text"
    /\ \E text \in AssistantUtterances :
           ToClient([type |-> "audio_transcript.done", id |-> srv.resp, text |-> text])
    /\ srv' = [srv EXCEPT !.resp = 0, !.phase = "idle"]
    /\ rt' = R
    /\ UNCHANGED streamingVars

SrvSpeechStarted ==
    /\ rt.isConnected /\ srv.vad = "quiet" /\ ~srv.tx
    /\ srv.heard < MaxUserUtterances
    /\ ToClient([type |-> "speech_started", id |-> 0, text |-> <<>>])
    /\ srv' = [srv EXCEPT !.vad = "speech"]
    /\ rt' = R
    /\ UNCHANGED streamingVars

SrvSpeechStopped ==
    /\ srv.vad = "speech"
    /\ ToClient([type |-> "speech_stopped", id |-> 0, text |-> <<>>])
    /\ srv' = [srv EXCEPT !.vad = "quiet", !.tx = TRUE, !.turn = TRUE]
    /\ rt' = R
    /\ UNCHANGED streamingVars

SrvUserTranscription ==
    /\ srv.tx
    /\ \E text \in UserUtterances :
           ToClient([type |-> "transcription.completed", id |-> 0, text |-> text])
    /\ srv' = [srv EXCEPT !.tx = FALSE, !.heard = @ + 1]
    /\ rt' = R
    /\ UNCHANGED streamingVars

\* the client's socket delivers the next server event
RtDeliver ==
    /\ net # <<>>
    /\ rt' = HandleServerEvent(R, Head(net))
    /\ net' = Tail(net)
    /\ UNCHANGED <<srv, streamingVars>>

\* the layer that handles booking_complete reports a failed booking
RtSendFeedback ==
    /\ rt.feedbacks < rt.bookingCompletes
    /\ rt' = [SendFeedbackToAI(R, FeedbackText) EXCEPT !.feedbacks = @ + 1]
    /\ UNCHANGED <<net, srv, streamingVars>>

\* the 3000 ms timer of checkBookingComplete
RtCompleteTimerFires ==
    /\ rt.completeTimers > 0
    /\ rt' = Emit(RtSetState([R EXCEPT !.completeTimers = @ - 1], "completed"),
                  "session_complete", rt.collectedData)
    /\ UNCHANGED <<net, srv, streamingVars>>

\* ------------------------------------------------------------------ specifications
\* the conversation of one call, while the media stream stays up
Next ==
    \/ WsStart \/ HsConfigLoaded \/ HsDbCreated
    \/ BookingChecked \/ BookingCreated
    \/ SpeechStarted \/ Transcription \/ SpeechFinal \/ UtteranceEnd
    \/ SilenceTimerFires \/ SessionCompleteTimerFires
    \/ AIReturns \/ AIThrows
    \/ TtsAudioChunk \/ TtsSynthesisComplete \/ TtsThrows

Spec == Init /\ [][Next]_vars

\* the same call with the transport's stop message and the socket's close
NextTeardown ==
    \/ WsStart \/ HsConfigLoaded \/ HsDbCreated
    \/ WsStop \/ StopUpdated \/ StopDeleted \/ WsClose \/ CloseDeleted
    \/ BookingChecked \/ BookingCreated
    \/ SpeechStarted \/ Transcription \/ SpeechFinal \/ UtteranceEnd
    \/ TdSilenceTimerFires \/ SessionCompleteTimerFires
    \/ AIReturns \/ AIThrows
    \/ TtsAudioChunk \/ TtsSynthesisComplete \/ TtsThrows

SpecTeardown == Init /\ [][NextTeardown]_vars

\* a call whose dialogue engine never answers: getAIResponse neither returns
\* nor throws; timers expire and a started synthesis ends
NextEngineSilent ==
    \/ WsStart \/ HsConfigLoaded \/ HsDbCreated
    \/ SpeechStarted \/ Transcription \/ SpeechFinal \/ UtteranceEnd
    \/ SilenceTimerFires
    \/ TtsAudioChunk \/ TtsSynthesisComplete \/ TtsThrows

SpecEngineSilent ==
    /\ Init /\ [][NextEngineSilent]_vars
    /\ WF_vars(SilenceTimerFires)
    /\ WF_vars(TtsSynthesisComplete \/ TtsThrows)

\* one call handled by a RealtimeStreamingSession
NextRT ==
    \/ RtStart \/ RtConnected \/ RtConnectFailed
    \/ SrvTakesRequest \/ SrvVadResponse
    \/ SrvAudioDelta \/ SrvAudioDone \/ SrvTranscriptDone
    \/ SrvSpeechStarted \/ SrvSpeechStopped \/ SrvUserTranscription
    \/ RtDeliver \/ RtSendFeedback \/ RtCompleteTimerFires

SpecRT == Init /\ [][NextRT]_vars

\* a call in which the speech-to-text service also reports blank results
NextBlankSpeech ==
    \/ WsStart \/ HsConfigLoaded \/ HsDbCreated
    \/ SpeechStarted \/ BlankTranscription \/ SpeechFinal \/ UtteranceEnd
    \/ TdSilenceTimerFires
    \/ AIReturns \/ AIThrows
    \/ TtsAudioChunk \/ TtsSynthesisComplete \/ TtsThrows

SpecBlankSpeech == Init /\ [][NextBlankSpeech]_vars

\* a call whose dialogue engine streams back well-formed and malformed output
NextEngineOutput ==
    \/ WsStart \/ HsConfigLoaded \/ HsDbCreated
    \/ SpeechStarted \/ Transcription \/ SpeechFinal \/ UtteranceEnd
    \/ SilenceTimerFires
    \/ EngineReplies \/ AIThrows
    \/ TtsAudioChunk \/ TtsSynthesisComplete \/ TtsThrows

SpecEngineOutput == Init /\ [][NextEngineOutput]_vars

\* a call served by either variant: the structured one, with its teardown, or
\* the realtime one
StructuredIdle ==
    /\ ss = NewSession /\ wsOpen /\ hsPc = "idle" /\ stopPc = "idle" /\ closePc = "idle"

RealtimeIdle == rt = NewRealtimeSession /\ net = <<>> /\ srv = NewServer

NextEither ==
    \/ (RealtimeIdle /\ WsStart)
    \/ (RealtimeIdle /\ HsConfigLoaded)
    \/ (RealtimeIdle /\ HsDbCreated)
    \/ (RealtimeIdle /\ WsStop)
    \/ (RealtimeIdle /\ StopUpdated)
    \/ (RealtimeIdle /\ StopDeleted)
    \/ (RealtimeIdle /\ WsClose)
    \/ (RealtimeIdle /\ CloseDeleted)
    \/ (RealtimeIdle /\ BookingChecked)
    \/ (RealtimeIdle /\ BookingCreated)
    \/ (RealtimeIdle /\ SpeechStarted)
    \/ (RealtimeIdle /\ Transcription)
    \/ (RealtimeIdle /\ SpeechFinal)
    \/ (RealtimeIdle /\ UtteranceEnd)
    \/ (RealtimeIdle /\ TdSilenceTimerFires)
    \/ (RealtimeIdle /\ SessionCompleteTimerFires)
    \/ (RealtimeIdle /\ AIReturns)
    \/ (RealtimeIdle /\ AIThrows)
    \/ (RealtimeIdle /\ TtsAudioChunk)
    \/ (RealtimeIdle /\ TtsSynthesisComplete)
    \/ (RealtimeIdle /\ TtsThrows)
    \/ (StructuredIdle /\ RtStart)
    \/ (StructuredIdle /\ RtConnected)
    \/ (StructuredIdle /\ RtConnectFailed)
    \/ (StructuredIdle /\ SrvTakesRequest)
    \/ (StructuredIdle /\ SrvVadResponse)
    \/ (StructuredIdle /\ SrvAudioDelta)
    \/ (StructuredIdle /\ SrvAudioDone)
    \/ (StructuredIdle /\ SrvTranscriptDone)
    \/ (StructuredIdle /\ SrvSpeechStarted)
    \/ (StructuredIdle /\ SrvSpeechStopped)
    \/ (StructuredIdle /\ SrvUserTranscription)
    \/ (StructuredIdle /\ RtDeliver)
    \/ (StructuredIdle /\ RtSendFeedback)
    \/ (StructuredIdle /\ RtCompleteTimerFires)

SpecEither == Init /\ [][NextEither]_vars

\* the two session stores under any order of create and delete calls
SpecStores == Init /\ [][NextStores]_vars

\* a call served by the webhook routes
SpecGather == Init /\ [][NextGather]_vars

\* the sessionStore of the webhook routes over the first MaxClock minutes
SpecSessions == Init /\ [][NextSessions]_vars

\* parseRelativeDate at every hour of the calendar
SpecDates == InitDates /\ [][NextDates]_vars

\* a call on which the transport neither sends stop nor closes the socket,
\* and every pending timer, reply and synthesis does come
SpecNoHangup == Init /\ [][Next]_vars /\ WF_vars(Next)

\* a call whose caller may fall silent at any time: what the service itself
\* has pending (awaits of handleStart, timers, replies, syntheses) does come,
\* the events of the speech-to-text service need not
SpecCallerMayStop ==
    /\ Init /\ [][Next]_vars
    /\ WF_vars(HsConfigLoaded) /\ WF_vars(HsDbCreated)
    /\ WF_vars(SilenceTimerFires) /\ WF_vars(SessionCompleteTimerFires)
    /\ WF_vars(AIReturns \/ AIThrows)
    /\ WF_vars(TtsSynthesisComplete \/ TtsThrows)
    /\ WF_vars(BookingChecked) /\ WF_vars(BookingCreated)

\* the opening of a call: the start message, audio frames and the greeting
NextMedia ==
    \/ WsStart \/ HsConfigLoaded \/ HsDbCreated
    \/ WsMedia
    \/ TtsAudioChunk \/ TtsSynthesisComplete \/ TtsThrows

SpecMedia == Init /\ [][NextMedia]_vars

\* the calls of one business booking in the same table
SpecBookings == Init /\ [][NextBookings]_vars

\* parseTime on every time text
SpecTimes == InitTimes /\ [][NextTimes]_vars

\* ------------------------------------------------------------------ properties
HasEmitted(s, name) == \E i \in 1..Len(s.emitted) : s.emitted[i].e = name

\* C1: a speech_started event delivered while isSpeaking is true leaves the
\* audio output queue empty and isSpeaking false when its handler returns.
BargeInQuiesces ==
    [][(ss.isSpeaking /\ SpeechStarted)
         => (ss'.audioQueue = <<>> /\ ~ss'.isSpeaking)]_vars

BargeInHappened == HasEmitted(ss, "barge_in") /\ ss.shouldInterrupt

\* C2: once barge-in has raised the interruption flag for an utterance, no
\* audio chunk of that utterance is forwarded to the transport afterwards.
NoChunkAfterInterrupt ==
    [][\A i \in 1..Len(ss'.sent) :
          ss'.sent[i].k = "audio" => ~ss.tts[ss'.sent[i].u].cut]_vars

\* C5: with a business configured, the state is completed only if the
\* dialogue engine signalled completion and the booking sequence started by
\* its booking_complete event created a booking.
CompletedOnlyAfterBooking ==
    (hasBusiness /\ ss.state = "completed")
        => (Len(ss.bk) > 0 /\ ss.bk[Len(ss.bk)] = "created")

\* C6: when the availability check of a booking_complete event came back
\* unavailable (and no other booking of the call did better), the session is
\* not completed and no session_complete is emitted.
OnlyUnavailable ==
    Len(ss.bk) > 0 /\ \A i \in 1..Len(ss.bk) : ss.bk[i] = "unavailable"

UnavailableReopens ==
    OnlyUnavailable
        => (ss.state # "completed" /\ ~HasEmitted(ss, "session_complete"))

\* C8: once the state is completed or failed, no later event changes it.
TerminalStatesStay ==
    [][ss.state \in {"completed", "failed"} => ss'.state = ss.state]_vars

\* C9: at most one dialogue-engine call is in flight; a timer expiry during a
\* turn starts no call and leaves the accumulated text unchanged; the text is
\* only appended to until a turn starts, and that turn passes all of it
\* (trimmed) to the dialogue engine.
OneTurnAtATime ==
    [][/\ ss'.aiInFlight <= 1
       /\ (ss.isProcessing /\ SilenceTimerFires)
            => /\ ss'.turns = ss.turns
               /\ ss'.aiInFlight = ss.aiInFlight
               /\ ss'.currentTranscript = ss.currentTranscript
               /\ ss'.conversationHistory = ss.conversationHistory
       /\ ss'.turns = ss.turns
            => IsPrefix(ss.currentTranscript, ss'.currentTranscript)
       /\ ss'.turns # ss.turns
            => /\ ~ss.isProcessing /\ ss.aiInFlight = 0
               /\ ss'.aiUserMessage = Trim(ss.currentTranscript)
               /\ ss'.currentTranscript = <<>>]_vars

\* an expiry was coalesced: text is waiting, the timer has fired, a turn is in flight
ExpiryCoalesced ==
    /\ ss.isProcessing /\ ss.aiInFlight = 1
    /\ Trim(ss.currentTranscript) # <<>>
    /\ ss.timers = {}

\* C10: after streamingSessionStore.delete has completed, the session has no
\* pending turn timer, is absent from the registry, sends nothing to the
\* transport and makes no dialogue-engine or synthesis call.
TornDown == stopPc = "done" \/ closePc = "done"

TeardownQuiesces ==
    [][TornDown => /\ ss'.timers = {}
                   /\ ~registered'
                   /\ ss'.sent = <<>>
                   /\ ss'.turns = ss.turns
                   /\ ss'.uttCount = ss.uttCount]_vars

\* C3: an audio_delta of a response for which handleBargeIn has sent
\* response.cancel is not forwarded to the transport and does not set
\* isSpeaking back to true.
LateAudioDelta ==
    /\ net # <<>>
    /\ Head(net).type = "audio.delta"
    /\ Head(net).id \in rt.cancelled

CancelledAudioDropped ==
    [][(LateAudioDelta /\ net' = Tail(net))
         => (rt'.sent = <<>> /\ ~rt'.isSpeaking)]_vars

\* C4: a session emits booking_complete at most once.
BookingCompleteAtMostOnce == rt.bookingCompletes <= 1

\* C7: a booking_complete emitted after sendFeedbackToAI, when the caller has
\* stated a date and a time since that feedback, carries the date and the time
\* the caller stated last.
RestatedAfterFeedback ==
    LET T == rt.conversationTranscript
        fb == {j \in 1..Len(T) : T[j].content = FeedbackText}
    IN {j \in 1..Len(T) :
          /\ fb # {} /\ \A f \in fb : f < j
          /\ T[j].role = "user"
          /\ ExtractDateTime(T[j].content).date # Undefined
          /\ ExtractDateTime(T[j].content).time # Undefined}

RebookCarriesNewSlot ==
    \A i \in 1..Len(rt.emitted) :
        (rt.emitted[i].e = "booking_complete" /\ RestatedAfterFeedback # {})
            => LET j == CHOOSE k \in RestatedAfterFeedback :
                            \A m \in RestatedAfterFeedback : m <= k
                   said == ExtractDateTime(rt.conversationTranscript[j].content)
               IN /\ rt.emitted[i].arg.appointmentDate = said.date
                  /\ rt.emitted[i].arg.appointmentTime = said.time

\* C11: a turn whose dialogue-engine call gets no reply still ends: the
\* session leaves the wait for getAIResponse and isProcessing returns to false.
AwaitingEngine == ss.turnPc = "awaitAI"

SilentEngineTurnEnds == AwaitingEngine ~> ~ss.isProcessing

\* C12: while the synthesis of the current utterance is still producing chunks
\* and no barge-in has interrupted it, isSpeaking is true and the state is
\* speaking: a chunk of the current, uninterrupted utterance that is forwarded
\* finds the session speaking.
SpeakingWhileProducing ==
    [][\A i \in 1..Len(ss'.sent) :
          (/\ ss'.sent[i].k = "audio"
           /\ ss'.sent[i].u = ss.uttCount
           /\ ~ss.tts[ss.uttCount].cut)
              => (ss.isSpeaking /\ ss.state = "speaking")]_vars

\* C19: at most one turn timer is pending, and it is the one armed last.
OneTimerPending == ss.timers \subseteq {ss.silenceTimer}

\* a second final transcript re-armed the timer while the first one's timer
\* was still pending (had it fired, a turn would have taken the text)
TimerRearmed ==
    /\ ss.timers # {} /\ ss.turns = 0
    /\ ss.currentTranscript = <<"a", " ">>

BookingFields == {"customerName", "appointmentDate", "appointmentTime"}

\* C13: once customerName, appointmentDate or appointmentTime of a
\* RealtimeStreamingSession is set, no later step changes its value.
FieldsWriteOnce ==
    [][\A f \in BookingFields :
          rt.collectedData[f] # Undefined
              => rt'.collectedData[f] = rt.collectedData[f]]_vars

\* the caller has just said another date than the one held, and it was kept
OtherDateIgnored ==
    LET T == rt.conversationTranscript
    IN /\ T # <<>>
       /\ T[Len(T)] = [role |-> "user", content |-> <<"today", "noon">>]
       /\ rt.collectedData.appointmentDate = "day+1"
       /\ rt.collectedData.appointmentTime = "14:00"

\* C14: every booking_complete event carries a customerName, an
\* appointmentDate and an appointmentTime, and the caller's number as phoneNumber.
BookingEventComplete ==
    \A i \in 1..Len(rt.emitted) :
        rt.emitted[i].e = "booking_complete"
            => /\ \A f \in BookingFields : rt.emitted[i].arg[f] # Undefined
               /\ rt.emitted[i].arg.phoneNumber = "from"

\* C15: booking_complete is emitted only by the handling of an assistant
\* utterance that contains a confirmation phrase, and only with all three
\* fields set; the handling of a caller utterance never emits it.
BookingOnlyOnConfirmation ==
    [][HasEmitted(rt', "booking_complete")
         => /\ net # <<>> /\ net' = Tail(net)
            /\ Head(net).type = "audio_transcript.done"
            /\ \E i \in 1..Len(Head(net).text) :
                   Head(net).text[i] \in ConfirmationPhrases
            /\ \A f \in BookingFields : rt'.collectedData[f] # Undefined]_vars

BookingConfirmed ==
    /\ HasEmitted(rt, "booking_complete")
    /\ rt.conversationTranscript[Len(rt.conversationTranscript)].role = "assistant"

\* C16: once a StreamingSession has emitted booking_complete with all of
\* customerName, appointmentDate and appointmentTime, its collected fields
\* never change again.
CollectedDataFrozen ==
    [][(\A f \in BookingFields : ss.collectedData[f] # Undefined)
           => ss'.collectedData = ss.collectedData]_vars

\* C17: the transcript of a session only grows by appending: every step of
\* either variant leaves the previous transcript a prefix of the new one.
TranscriptAppendOnly ==
    [][/\ IsPrefix(ss.conversationHistory, ss'.conversationHistory)
       /\ IsPrefix(rt.conversationTranscript, rt'.conversationTranscript)]_vars

\* a whole turn is on record: greeting, caller, assistant
TurnOnRecord ==
    /\ Len(ss.conversationHistory) >= 3
    /\ ss.conversationHistory[1].content = GreetingText
    /\ ss.conversationHistory[2].role = "user"
    /\ ss.conversationHistory[3].role = "assistant"

\* C18: an utterance_end, a speech_final or a timer expiry while the
\* accumulated transcript is empty or white space changes no session state,
\* starts no engine call and adds no transcript entry, each time it happens.
BlankSpeechIgnored ==
    [][(/\ Trim(ss.currentTranscript) = <<>>
        /\ (SpeechFinal \/ UtteranceEnd \/ TdSilenceTimerFires))
          => /\ ss'.state = ss.state
             /\ ss'.isProcessing = ss.isProcessing
             /\ ss'.aiInFlight = ss.aiInFlight
             /\ ss'.turns = ss.turns
             /\ ss'.conversationHistory = ss.conversationHistory
             /\ ss'.currentTranscript = ss.currentTranscript
             /\ ~HasEmitted(ss', "state_change")]_vars

\* the timer armed for a transcript of white space has expired
BlankExpired ==
    /\ ss.currentTranscript = <<" ">>
    /\ ss.silenceTimer # 0 /\ ss.timers = {}
    /\ ~ss.isProcessing /\ ss.turns = 0

SessionStates ==
    {"initializing", "greeting", "listening", "processing", "speaking",
     "completed", "failed"}

\* C20: every state_change(old, new) a StreamingSession emits is one of the
\* allowed transitions.
TransitionsAllowed ==
    LET allowed ==
            {<<"initializing", "greeting">>, <<"greeting", "listening">>,
             <<"listening", "processing">>, <<"processing", "speaking">>,
             <<"speaking", "listening">>, <<"processing", "completed">>,
             <<"speaking", "completed">>}
                \cup {<<old, "failed">> : old \in SessionStates}
    IN \A i \in 1..Len(ss.emitted) :
           ss.emitted[i].e = "state_change"
               => <<ss.emitted[i].arg.oldState, ss.emitted[i].arg.newState>>
                      \in allowed

\* C21: in every state of a StreamingSession the audio output queue is
\* non-empty only if isSpeaking is true.
QueueOnlyWhileSpeaking == ss.audioQueue # <<>> => ss.isSpeaking

\* a synthesized chunk went through the queue and was forwarded
ChunkWentThroughQueue ==
    /\ \E i \in 1..Len(ss.sent) : ss.sent[i].k = "audio"
    /\ ss.audioQueue = <<>>
    /\ ~ss.isSpeaking
    /\ ss.state = "listening"

\* C22: for every output of the dialogue engine that is not parseable JSON,
\* or that parses without status complete, the turn is a collecting one: the
\* raw text (or its response field) is put on record and spoken, no booking
\* field is set, no booking_complete is emitted and the session does not fail.
MalformedReplyCollects ==
    [][\A out \in EngineOutputs :
          (/\ ss.turnPc = "awaitAI"
           /\ ~(out.json /\ out.status = "complete")
           /\ ss' = OnAIResponse(S, ProcessConversationStreaming(out)))
             => LET text == IF out.json /\ out.response # <<>>
                            THEN out.response ELSE out.raw
                IN /\ ss'.conversationHistory =
                          Append(ss.conversationHistory,
                                 [role |-> "assistant", content |-> text])
                   /\ ss'.uttCount = ss.uttCount + 1
                   /\ ss'.tts[ss'.uttCount].st = "streaming"
                   /\ ss'.turnPc = "awaitSpeak"
                   /\ ss'.collectedData = ss.collectedData
                   /\ ~HasEmitted(ss', "booking_complete")
                   /\ (ss'.state = "failed" => ss.state = "failed")]_vars

StoreFindsLiveSessions ==
    \A k \in StoreNames :
        LET st == stores[k] IN
        \A id \in 1..Len(st.made) :
            IF id \in st.gone
            THEN /\ Get(st, st.made[id]) # id
                 /\ GetByStreamSid(st, id) # id
            ELSE /\ GetByStreamSid(st, id) = id
                 /\ (\A j \in CreatedFor(st, st.made[id]) : j <= id)
                        => Get(st, st.made[id]) = id

\* C25: a turn that a timer expiry starts in state listening takes the state
\* to processing, hands the trimmed accumulated text to the dialogue engine,
\* clears the accumulator and appends one caller entry; its collecting reply
\* takes the state from processing to speaking, appends one assistant entry
\* after the caller's, leaves the collected fields alone and emits no
\* booking_complete.
CollectingTurnEffect ==
    [][/\ (/\ SilenceTimerFires
           /\ ss.turnPc = "idle" /\ ss'.turnPc = "awaitAI"
           /\ ss.state = "listening")
              => /\ ss'.state = "processing"
                 /\ ss'.aiUserMessage = Trim(ss.currentTranscript)
                 /\ ss'.currentTranscript = <<>>
                 /\ ss'.conversationHistory =
                        Append(ss.conversationHistory,
                               [role |-> "user", content |-> Trim(ss.currentTranscript)])
       /\ \A r \in CollectingReplies :
              (/\ ss.turnPc = "awaitAI" /\ ss.state = "processing"
               /\ ss' = OnAIResponse(S, r))
                 => /\ ss'.state = "speaking"
                    /\ ss.conversationHistory[Len(ss.conversationHistory)] =
                           [role |-> "user", content |-> ss.aiUserMessage]
                    /\ ss'.conversationHistory =
                           Append(ss.conversationHistory,
                                  [role |-> "assistant", content |-> r.response])
                    /\ ss'.collectedData = ss.collectedData
                    /\ ~HasEmitted(ss', "booking_complete")]_vars

\* ------------------------------------------------------------------ relative dates
\* the number of the day, counted from the last day of 2022
DayNumber(date) ==
    365 * (date.y - 2023)
        + Cardinality({k \in 2023..(date.y - 1) : IsLeap(k)})
        + <<0, 31, 59, 90, 120, 151, 181, 212, 243, 273, 304, 334>>[date.m]
        + (IF IsLeap(date.y) /\ date.m > 2 THEN 1 ELSE 0)
        + date.d

\* the dates of the month of `date` and of the month after it
DatesAround(date) ==
    {x \in [y : {date.y, date.y + 1}, m : {date.m, (date.m % 12) + 1}, d : 1..31] :
        x.d <= DaysIn(x.y, x.m)}

\* C26: at every hour of every day of the calendar, month and year ends
\* included, "today" resolves to the current date and "tomorrow" to the date
\* one day after it, written YYYY-MM-DD; on 2025-06-10 "tomorrow" is
\* 2025-06-11.
RelativeDayResolved ==
    (dp.kind = "date" /\ dp.word \in {"today", "tomorrow"}) =>
        /\ \E x \in DatesAround(dp.now) :
               /\ DayNumber(x) = DayNumber(dp.now)
                                    + (IF dp.word = "tomorrow" THEN 1 ELSE 0)
               /\ dp.out = IsoDate(x)
        /\ (dp.now = [y |-> 2025, m |-> 6, d |-> 10] /\ dp.word = "tomorrow") =>
               dp.out = <<"2", "0", "2", "5", "-", "0", "6", "-", "1", "1">>

\* C26 where the local time is UTC
RelativeDayResolvedInUtc ==
    dp.kind = "date" /\ dp.offset = 0 => RelativeDayResolved

\* ------------------------------------------------------------------ clock times
\* the number a result of parseTime shows at positions i and i + 1
Shown(out, i) == ParseInt(SubSeq(out, i, i + 1))

\* C27: for every hour 1..12, minute 0..59 and period am/pm parseTime yields
\* the 24-hour HH:MM equivalent (12am is 00, 12pm is 12, the other pm hours
\* add 12; "2pm" is "14:00", "noon" "12:00", "midnight" "00:00"), and every
\* result is null or has 00 <= HH <= 23 and 00 <= MM <= 59.
TimesOnThe24HourClock ==
    (dp.kind = "time" /\ dp.out # <<"unparsed">>) =>
        /\ (/\ dp.in.hours \in 1..12
            /\ dp.in.minutes \in {-1} \cup 0..59
            /\ LowerCased(dp.in.period) \in {<<"a", "m">>, <<"p", "m">>}) =>
               LET pm == LowerCased(dp.in.period) = <<"p", "m">>
                   hh == (dp.in.hours % 12) + (IF pm THEN 12 ELSE 0)
                   mm == IF dp.in.minutes = -1 THEN 0 ELSE dp.in.minutes
               IN dp.out = <<Digit(hh \div 10), Digit(hh % 10), ":",
                             Digit(mm \div 10), Digit(mm % 10)>>
        /\ dp.in.text = <<"2", "p", "m">> => dp.out = <<"1", "4", ":", "0", "0">>
        /\ dp.in.text = <<"n", "o", "o", "n">> => dp.out = <<"1", "2", ":", "0", "0">>
        /\ dp.in.text = <<"m", "i", "d", "n", "i", "g", "h", "t">> =>
               dp.out = <<"0", "0", ":", "0", "0">>
        /\ \/ dp.out = Null
           \/ /\ Len(dp.out) = 5 /\ dp.out[3] = ":"
              /\ IsDigits(SubSeq(dp.out, 1, 2)) /\ IsDigits(SubSeq(dp.out, 4, 5))
              /\ Shown(dp.out, 1) \in 0..23
              /\ Shown(dp.out, 4) \in 0..59

\* C27, reached: "12:05 am" has been parsed to "00:05"
MidnightHourParsed ==
    /\ dp.kind = "time"
    /\ dp.in.text = <<"1", "2", ":", "0", "5", " ", "a", "m">>
    /\ dp.out = <<"0", "0", ":", "0", "5">>

\* ------------------------------------------------------------------ registry after teardown
\* no handler of the connection is suspended: handleStart has returned (its
\* session.start() included) or never ran, and no handleStop or close handler
\* is between its awaits
HandlersFinished ==
    /\ \/ hsPc = "idle"
       \/ hsPc = "done" /\ ss.startPc \in {"done", "failed"}
    /\ stopPc \in {"idle", "nosession", "done"}
    /\ closePc \in {"idle", "nosession", "done"}

\* C28: in every interleaving of the start, media, stop and close messages of
\* a connection, once stop or close has been handled and all handlers have
\* finished, the registry holds no session for the call.
RegistryEmptyAfterTeardown ==
    (HandlersFinished /\ (stopPc # "idle" \/ closePc # "idle")) => ~registered

\* C28 for a stop or close that found the session in the registry
RegistryEmptyAfterDelete ==
    (HandlersFinished /\ (stopPc = "done" \/ closePc = "done")) => ~registered

\* ------------------------------------------------------------------ overlapping bookings
\* C29: whatever the interleaving of the availability checks and the booking
\* creations of two calls of one business, no two created bookings overlap.
NoOverlappingBookings ==
    \A i, j \in 1..Len(db.bookings) :
        i # j => i \notin Conflicts(db.bookings, db.bookings[j].start_time,
                                     db.bookings[j].end_time)

\* ------------------------------------------------------------------ caller audio
\* C30: every inbound audio frame the transport delivers after the start
\* message is forwarded to the speech pipeline exactly once and in arrival
\* order; none is dropped while the session is being created or the pipeline
\* is connecting.
EveryFrameForwarded ==
    media.forwarded = [i \in 1..media.arrived |-> i]

\* C30 without the frames of the opening: the forwarded frames are in arrival
\* order, none twice, and a frame that arrives once handleStart has called
\* session.start() is forwarded
FramesInOrder ==
    /\ \A i, j \in 1..Len(media.forwarded) :
           i < j => media.forwarded[i] < media.forwarded[j]
    /\ [][(hsPc = "done" /\ media'.arrived = media.arrived + 1)
            => media'.forwarded = Append(media.forwarded, media'.arrived)]_vars

\* ------------------------------------------------------------------ booking errors on the webhook route
\* C31: session.status becomes completed only in a turn where the slot was
\* available and createDbBooking returned an id; when the slot is not
\* available or the booking cannot be persisted, the status is not completed
\* and the reply gathers again instead of hanging up.
BookingErrorsRecoverable ==
    [][/\ (gs'.status = "completed" /\ gs.status # "completed")
            => (gs.available = "yes" /\ gs'.bookingId = "id")
       /\ (gs.pc = "checkAvailability" /\ gs'.available = "no")
            => (gs'.twiml = "gather" /\ gs'.status # "completed")
       /\ (gs.pc = "createBooking" /\ gs'.bookingId = "null")
            => (gs'.twiml = "gather" /\ gs'.status # "completed")]_vars

\* C31 without the reply to a booking that cannot be persisted
CompletedOnlyWhenBooked ==
    [][/\ (gs'.status = "completed" /\ gs.status # "completed")
            => (gs.available = "yes" /\ gs'.bookingId = "id")
       /\ (gs.pc = "checkAvailability" /\ gs'.available = "no")
            => (gs'.twiml = "gather" /\ gs'.status # "completed")
       /\ (gs.pc = "createBooking" /\ gs'.bookingId = "null")
            => gs'.status # "completed"]_vars

\* ------------------------------------------------------------------ messages of a barge-in
\* handleBargeIn has run to its end in the step
BargedIn ==
    ss.isSpeaking /\ \E i \in 1..Len(ss'.emitted) : ss'.emitted[i].e = "barge_in"

\* C32: on each barge-in of a session attached to the bridge the transport
\* receives exactly one clear message followed by exactly one silence frame,
\* barge_in is emitted once, and the state is listening afterwards.
BargeInClearsOnce ==
    [][BargedIn =>
         /\ ss'.sent = <<[k |-> "clear", u |-> 0], [k |-> "silence", u |-> 0]>>
         /\ Cardinality({i \in 1..Len(ss'.emitted) : ss'.emitted[i].e = "barge_in"}) = 1
         /\ ss'.state = "listening"]_vars

\* C32 with the clear message the bridge's barge_in listener sends after the
\* silence frame
BargeInClearsTwice ==
    [][BargedIn =>
         /\ ss'.sent = <<[k |-> "clear", u |-> 0], [k |-> "silence", u |-> 0],
                         [k |-> "clear", u |-> 0]>>
         /\ Cardinality({i \in 1..Len(ss'.emitted) : ss'.emitted[i].e = "barge_in"}) = 1
         /\ ss'.state = "listening"]_vars

\* ------------------------------------------------------------------ terminal sessions
\* C33: a streaming session that reaches completed or failed is eventually
\* removed from the registry, even if the transport never signals stop and
\* never closes the socket.
TerminalSessionRemoved ==
    (registered /\ ss.state \in {"completed", "failed"}) ~> ~registered

\* ------------------------------------------------------------------ accumulated text reaches the engine
\* C34: every non-empty caller transcript that has been accumulated is
\* eventually passed to the dialogue engine (which empties the accumulator),
\* also when its timer expired during a turn and the caller then stays
\* silent.  Text accumulated after the last turn the bound allows is left out.
AccumulatedTextProcessed ==
    (Trim(ss.currentTranscript) # <<>> /\ ss.turns < MaxTurns)
        ~> (ss.currentTranscript = <<>>)

\* ------------------------------------------------------------------ state of an idle session
\* no synthesizeStreaming call is in progress
NoSynthesis == \A u \in 1..MaxUtt : ss.tts[u].st # "streaming"

\* C35: whenever a session has no turn in flight and no synthesis in
\* progress, its state is not processing and not speaking; this includes
\* turns whose reply text is empty and turns whose synthesis throws.
IdleSessionListens ==
    (~ss.isProcessing /\ NoSynthesis) => ss.state \notin {"processing", "speaking"}

\* ------------------------------------------------------------------ where the name comes from
\* C36: customerName of a RealtimeStreamingSession is set only by a caller
\* utterance that contains "my name is X" or "name's X" with X outside the
\* stoplist; no other caller or assistant utterance sets it.
NameOnlyFromCaller ==
    [][(rt.collectedData.customerName = Undefined
          /\ rt'.collectedData.customerName # Undefined)
         => LET T == rt'.conversationTranscript
                said == T[Len(T)]
            IN /\ Len(T) = Len(rt.conversationTranscript) + 1
               /\ said.role = "user"
               /\ \E i \in 1..(Len(said.content) - 1) :
                      /\ said.content[i] \in {"my name is", "name's"}
                      /\ said.content[i + 1] = rt'.collectedData.customerName
               /\ ToLowerCase(rt'.collectedData.customerName) \notin CommonWords]_vars

\* ------------------------------------------------------------------ what the engine is given
\* getAIResponse: the messages of the turn that has just started
GetAIResponse(s) ==
    EngineMessages(SubSeq(s.conversationHistory, 1, Len(s.conversationHistory) - 1),
                   s.aiUserMessage)

\* the transcript so far, then the caller's utterance once
TranscriptThenUtterance(messages, transcript, utterance) ==
    Tail(messages) = transcript \o <<[role |-> "user", content |-> utterance]>>

\* C37, streaming flow: the turn that starts gives the engine the history of
\* the earlier turns followed by the trimmed accumulated text, once.
StreamingEngineGetsTranscript ==
    [][(ss.turnPc # "awaitAI" /\ ss'.turnPc = "awaitAI")
         => TranscriptThenUtterance(GetAIResponse(ss'), ss.conversationHistory,
                                    Trim(ss.currentTranscript))]_vars

\* C37: on every turn, in the streaming flow and in the webhook gather flow,
\* the message list given to the dialogue engine holds the transcript of the
\* earlier turns in order, followed by the current caller utterance exactly
\* once.
EngineGetsTranscriptOnce ==
    [][/\ (ss.turnPc # "awaitAI" /\ ss'.turnPc = "awaitAI")
            => TranscriptThenUtterance(GetAIResponse(ss'), ss.conversationHistory,
                                       Trim(ss.currentTranscript))
       /\ (gs.pc = "idle" /\ gs'.pc = "turnAwaitAI")
            => TranscriptThenUtterance(gs'.messages, gs.conversationHistory,
                                       gs'.conversationHistory[Len(gs'.conversationHistory)].content)]_vars


\* ------------------------------------------------------------------ start() and the speech-to-text connection
\* the speech-to-text connection was never created, and no teardown closed it
SttStartFailed ==
    /\ ss.startPc # "idle" /\ ~sttOpen
    /\ stopPc \in {"idle", "updating", "nosession"}
    /\ closePc \in {"idle", "nosession"}

RetrievableIn(st, c) ==
    st.sessions[c].present /\ st.now - st.sessions[c].createdAt <= TTL_MS

\* the call of c has had its terminal status and the grace timer has not fired
InGraceIn(st, c) ==
    st.line[c] = "updating" \/ \E t \in st.timers : t.callSid = c

\* C39: after a terminal call status the session stays retrievable until the
\* grace timer fires (a retrievable session in its grace period is lost only
\* in the step that ends the period), it is gone when the timer has fired,
\* and the request of a status that is not terminal leaves the timers as
\* they were and the call out of any grace period
GraceKeepsSession ==
    [][ \A c \in CallSids :
          /\ (InGraceIn(cs, c) /\ RetrievableIn(cs, c) /\ ~RetrievableIn(cs', c))
                 => ~InGraceIn(cs', c)
          /\ (InGraceIn(cs, c) /\ ~InGraceIn(cs', c))
                 => ~cs'.sessions[c].present
          /\ (cs'.posted.callSid = c
                  /\ cs'.posted.CallStatus \notin TerminalStatuses)
                 => ~InGraceIn(cs', c) /\ cs'.timers = cs.timers ]_vars

\* the grace timer deletes the session, and no other status sets one
GraceTimerDeletes ==
    [][ \A c \in CallSids :
          /\ (InGraceIn(cs, c) /\ ~InGraceIn(cs', c))
                 => ~cs'.sessions[c].present
          /\ (cs'.posted.callSid = c
                  /\ cs'.posted.CallStatus \notin TerminalStatuses)
                 => ~InGraceIn(cs', c) /\ cs'.timers = cs.timers ]_vars

\* C40: getSession and updateSession never return a session created more
\* than TTL_MS ago and leave no such entry of the callSid behind; an
\* updateSession on a missing or expired callSid returns undefined, leaves no
\* entry of that callSid and leaves every other session as it was
SessionsExpire ==
    [][ \A c \in CallSids :
          (cs'.ret.op \in {"get", "update"} /\ cs'.ret.callSid = c) =>
              LET old == cs.sessions[c]
                  expired == old.present /\ cs.now - old.createdAt > TTL_MS
              IN /\ cs'.ret.value.present
                       => cs'.now - cs'.ret.value.createdAt <= TTL_MS
                 /\ expired
                       => ~cs'.ret.value.present /\ ~cs'.sessions[c].present
                 /\ (cs'.ret.op = "update" /\ (~old.present \/ expired))
                       => /\ ~cs'.ret.value.present
                          /\ ~cs'.sessions[c].present
                          /\ \A d \in CallSids \ {c} :
                                 cs'.sessions[d] = cs.sessions[d] ]_vars

\* an updateSession after the 30 minutes of its session has returned
\* undefined while the session of the other call is still there
ExpiredUpdateRefused ==
    /\ cs.ret.op = "update" /\ ~cs.ret.value.present
    /\ cs.now > TTL_MS
    /\ \E d \in CallSids \ {cs.ret.callSid} : RetrievableIn(cs, d)
====================================================================
